---- MODULE Spec2Model ----
(***************************************************************************)
(* Artwork resolution of the Houseofglen cover flow: the three lookup      *)
(* services (AudioDbService, iTunesAPIService, FastItunesService) and the  *)
(* hooks that schedule lookups around a focus index.                       *)
(*                                                                         *)
(* JavaScript runs one task at a time.  An action of this module is one    *)
(* task: a call from the outside, a network or timer event, or the         *)
(* continuation of an await.  Continuations of a settled promise run       *)
(* before any other task, which the guards state.                          *)
(***************************************************************************)
EXTENDS Integers, Sequences, FiniteSets, Bags, TLC

\* ---------------------------------------------------------------- bounds
\* Distinct (artist, title) pairs the calls of a service are made with.
NKeys == 2
\* Calls made to a service in one run.
MaxCalls == 3
\* Calls of clearCache in one run.
MaxClears == 1
\* Songs of the list a hook is given; the songs have distinct artist-title pairs.
NSongs == 3
\* The props preloadRadius and lazyLoadRadius of a hook.
PreloadRadius == 1
LazyLoadRadius == 2
\* Calls of preloadCoversBatch in one run.
MaxPreloads == 1
\* Changes of the prop centerIndex of useFastAlbumCovers in one run.
MaxMoves == 2
\* The longest artist name a key is built from.
MaxStrLen == 4
\* Songs of the list useProgressiveAlbumCovers is given at first.
NProgSongs == 4
\* Replacements of the prop songs, and changes of the props centerIndex and
\* visibleRange, of useProgressiveAlbumCovers in one run.
MaxLists == 1
MaxReplans == 1

Keys == 1..NKeys
CallIds == 1..MaxCalls
\* Indices into songs, and the cache key of the song at an index.
Positions == 0..(NSongs - 1)
SongKeys == 1..NSongs
SongKey(i) == i + 1

\* ---------------------------------------------------------------- values
\* No entry / a null result.
None == "none"
\* Artwork URLs the search can answer with (already rewritten to 600x600).
Urls == {"U1", "U2"}
\* AudioDbService.getPlaceholderImage: one constant image.
Placeholder == "PLACEHOLDER"

\* What one fetch of the search endpoint can come to: a transport error, a
\* non-success status or an unparseable body ("err"); no result, no match above
\* the floor or a match without artwork ("empty"); or the artwork URL of the
\* best match.
Failures == {"err", "empty"}
Outcomes == Failures \cup Urls
\* The artwork of the song with key k, when the search finds it.
CoverOf(k) == "U" \o ToString(k)
\* getFallbackArtwork(artist, title): an image generated from the two strings.
Fallback(k) == "FB" \o ToString(k)

Max(a, b) == IF a >= b THEN a ELSE b
Range(seq) == {seq[j] : j \in DOMAIN seq}
Min(a, b) == IF a <= b THEN a ELSE b

VARIABLES
  adCache,    \* AudioDbService.cache: key -> cover, None when absent
  adQueue,    \* AudioDbService.requestQueue: key -> request, 0 when absent
  adReq,      \* the request promises, named by the call that created them
  adSubs,     \* per request: the calls awaiting it, in the order they subscribed
  adCalls,    \* the calls of getAlbumCover / loadAlbumCoverProgressive
  itCache,    \* iTunesAPIService.coverCache: key -> cover, None when absent
  itCalls,    \* the calls of iTunesAPIService.searchTrack
  itFetches,  \* history: fetches started per key
  itOverlap,  \* history: keys searched while a fetch for them was outstanding
  itResolved, \* history: keys a searchTrack call has returned for since the last clear
  itEpoch,    \* history: calls of clearCache so far
  lzCenter,   \* useLazyAlbumCovers: the prop centerIndex
  lzLoaded,   \* state.loadedCovers: key -> cover, None when absent
  lzLoading,  \* state.loadingCovers
  lzFailed,   \* state.failedCovers
  lzQueue,    \* loadingQueue.current
  lzBatch,    \* the call of loadCoversBatch whose signal is not aborted
  lzOrphans,  \* the loads in flight of calls whose signal is aborted (a bag)
  lzDirty,    \* a render has changed a dependency of the load effect
  lzEpoch,    \* history: calls of the hook's clearCache so far
  lzPreloads, \* history: calls of preloadCoversBatch so far
  lzErrored,  \* history: keys whose lookup or image preload failed in a finished load
  fiCache,    \* FastItunesService.coverCache: key -> cover, None when absent
  fsCenter,   \* useFastAlbumCovers: the prop centerIndex
  fsLoaded,   \* loadedCovers: key -> cover, None when absent
  fsAttempted, \* attemptedLoads
  fsQueue,    \* loadingQueue.current
  fsRuns,     \* the running loadSequence and loadBackground loops (a bag)
  fsTimer,    \* the pending timer of the background effect
  fsDirty,    \* what the last render changed: "none", "center" or "state"
  fsMoves,    \* history: changes of centerIndex so far
  fsFailed,   \* history: keys whose lookup came back without a cover
  kyArtist,   \* two artist names
  kyTitle,    \* two titles
  kyBuilder,  \* the component that built kyKeys, "none" before
  kyKeys,     \* the keys built for the two (artist, title) pairs
  pgLen,      \* useProgressiveAlbumCovers: songs.length, songs are the first pgLen
  pgCenter,   \* the prop centerIndex
  pgVisible,  \* the prop visibleRange
  pgCovers,   \* songCovers: song id -> cover, None when absent
  pgCount,    \* loadedCount
  pgQueue,    \* loadingQueueRef.current
  pgLoadedIds, \* loadedIdsRef.current
  pgLoading,  \* the keys of loadingStates
  pgCache,    \* AudioDbService.cache as the hook uses it: key -> cover
  pgReq,      \* AudioDbService.requestQueue: key -> the request pending for it
  pgSubs,     \* per key: the loadAlbumCoverProgressive calls awaiting the request
  pgPasses,   \* the loadCovers runs that are suspended (a bag)
  pgDirty,    \* the props the last render changed: "none", "plan" or "songs"
  pgLists,    \* history: replacements of songs so far
  pgReplans,  \* history: changes of centerIndex or visibleRange so far
  pgRank,     \* history: per song id, the number of its latest submission, 0 before
  pgClock,    \* history: submissions so far
  pgPlanStart, \* history: pgClock when the current props were given
  mtService,  \* the component whose search has returned, "none" before
  mtArtist,   \* the artist the search was called with
  mtTrack,    \* the track title the search was called with
  mtResults,  \* data.results of the response: the candidates, in order
  mtScores,   \* the scores findBestMatch gave the candidates, in their order
  mtChosen,   \* the index of the candidate the component selected, 0 for none
  mtCover,    \* what the service returned: a URL or null
  mtEntry,    \* what useLazyAlbumCovers stored for the song
  mtImages,   \* the calls of getFallbackArtwork made on their own, in order
  upInProgress, \* AlbumCoverUpdater.updateInProgress
  upCallback, \* AlbumCoverUpdater.progressCallback: "none" for undefined
  upCalls,    \* the calls of updateAllCovers / updateSpecificCovers
  sbQuery,    \* SearchBar: the state query
  sbTimeout,  \* window.searchTimeout: the pending debounce timer and its value
  sbLast,     \* history: the argument of the last call of onSearch
  sbSearches, \* history: calls of onSearch so far
  cfSongs,    \* App: the state songs, a list of song ids
  cfLoading,  \* App: the state loading
  cfPending,  \* the calls of loadSongs in flight: the lists they return, in order
  cfFetches,  \* history: calls of fetchSongs so far
  cfSelected, \* App: selectedSong, a song id, 0 for null or undefined
  cfAppIndex, \* App: the state currentIndex
  cfMounted,  \* CoverFlow is rendered
  cfIndex,    \* CoverFlow: the state currentIndex
  cfDragging, \* CoverFlow: the state isDragging
  cfUndefined, \* history: onSongSelect was called with undefined
  bvYoutubeId, \* SimpleBackgroundVideo: the prop youtubeId
  bvHasError, \* the state hasError
  bvRetryCount, \* the state retryCount
  bvIsLoading, \* the state isLoading
  bvIframe,   \* the iframe rendered: "loading", "loaded", or "none" for the fallback
  bvTimers,   \* the pending timers that will call setHasError(false)
  bvErrors,   \* history: load errors for the current youtubeId
  bvRetries,  \* history: iframes mounted after an error for the current youtubeId
  bvChanges,  \* history: changes of youtubeId so far
  hsArtist,   \* getFallbackArtwork: the argument artist
  hsTrack,    \* the argument trackTitle
  hsDone,     \* the call has returned
  hsHash,     \* the value simpleHash returned
  hsImage     \* the colours and text of the image returned

adVars == <<adCache, adQueue, adReq, adSubs, adCalls>>
itVars == <<itCache, itCalls, itFetches, itOverlap, itResolved, itEpoch>>

itHistory == <<itCalls, itFetches, itOverlap, itResolved, itEpoch>>
lzVars == <<lzCenter, lzLoaded, lzLoading, lzFailed, lzQueue, lzBatch, lzOrphans,
            lzDirty, lzEpoch, lzPreloads, lzErrored>>

fsVars == <<fiCache, fsCenter, fsLoaded, fsAttempted, fsQueue, fsRuns, fsTimer,
            fsDirty, fsMoves, fsFailed>>
kyVars == <<kyArtist, kyTitle, kyBuilder, kyKeys>>
pgVars == <<pgLen, pgCenter, pgVisible, pgCovers, pgCount, pgQueue, pgLoadedIds,
            pgLoading, pgCache, pgReq, pgSubs, pgPasses, pgDirty, pgLists,
            pgReplans, pgRank, pgClock, pgPlanStart>>
mtVars == <<mtService, mtArtist, mtTrack, mtResults, mtScores, mtChosen, mtCover,
            mtEntry, mtImages>>
upVars == <<upInProgress, upCallback, upCalls>>

sbVars == <<sbQuery, sbTimeout, sbLast, sbSearches>>
cfVars == <<cfSongs, cfLoading, cfPending, cfFetches, cfSelected, cfAppIndex, cfMounted, cfIndex, cfDragging, cfUndefined>>
bvVars == <<bvYoutubeId, bvHasError, bvRetryCount, bvIsLoading, bvIframe, bvTimers, bvErrors, bvRetries, bvChanges>>
hsVars == <<hsArtist, hsTrack, hsDone, hsHash, hsImage>>
vars == <<adCache, adQueue, adReq, adSubs, adCalls,
          itCache, itCalls, itFetches, itOverlap, itResolved, itEpoch,
          lzCenter, lzLoaded, lzLoading, lzFailed, lzQueue, lzBatch, lzOrphans,
          lzDirty, lzEpoch, lzPreloads, lzErrored,
          fiCache, fsCenter, fsLoaded, fsAttempted, fsQueue, fsRuns, fsTimer,
          fsDirty, fsMoves, fsFailed,
          kyArtist, kyTitle, kyBuilder, kyKeys,
          pgLen, pgCenter, pgVisible, pgCovers, pgCount, pgQueue, pgLoadedIds,
          pgLoading, pgCache, pgReq, pgSubs, pgPasses, pgDirty, pgLists,
          pgReplans, pgRank, pgClock, pgPlanStart,
          mtService, mtArtist, mtTrack, mtResults, mtScores, mtChosen, mtCover,
          mtEntry, mtImages,
          upInProgress, upCallback, upCalls,
          sbQuery, sbTimeout, sbLast, sbSearches,
          cfSongs, cfLoading, cfPending, cfFetches, cfSelected, cfAppIndex, cfMounted, cfIndex, cfDragging, cfUndefined,
          bvYoutubeId, bvHasError, bvRetryCount, bvIsLoading, bvIframe, bvTimers, bvErrors, bvRetries, bvChanges,
          hsArtist, hsTrack, hsDone, hsHash, hsImage>>

\* What the tasks of one component leave alone: the state of the others.
AdFrame == UNCHANGED <<itVars, lzVars, fsVars, kyVars, pgVars, mtVars, upVars, sbVars, cfVars, bvVars, hsVars>>
ItFrame == UNCHANGED <<adVars, lzVars, fsVars, kyVars, pgVars, mtVars, upVars, sbVars, cfVars, bvVars, hsVars>>
LzFrame == UNCHANGED <<adVars, itHistory, fsVars, kyVars, pgVars, mtVars, upVars, sbVars, cfVars, bvVars, hsVars>>
FsFrame == UNCHANGED <<adVars, itVars, lzVars, kyVars, pgVars, mtVars, upVars, sbVars, cfVars, bvVars, hsVars>>
KyFrame == UNCHANGED <<adVars, itVars, lzVars, fsVars, pgVars, mtVars, upVars, sbVars, cfVars, bvVars, hsVars>>
PgFrame == UNCHANGED <<adVars, itVars, lzVars, fsVars, kyVars, mtVars, upVars, sbVars, cfVars, bvVars, hsVars>>
MtFrame == UNCHANGED <<adVars, itVars, lzVars, fsVars, kyVars, pgVars, upVars, sbVars, cfVars, bvVars, hsVars>>
UpFrame == UNCHANGED <<adVars, itVars, lzVars, fsVars, kyVars, pgVars, mtVars, sbVars, cfVars, bvVars, hsVars>>
SbFrame == UNCHANGED <<adVars, itVars, lzVars, fsVars, kyVars, pgVars, mtVars, upVars, cfVars, bvVars, hsVars>>
CfFrame == UNCHANGED <<adVars, itVars, lzVars, fsVars, kyVars, pgVars, mtVars, upVars, sbVars, bvVars, hsVars>>
BvFrame == UNCHANGED <<adVars, itVars, lzVars, fsVars, kyVars, pgVars, mtVars, upVars, sbVars, cfVars, hsVars>>
HsFrame == UNCHANGED <<adVars, itVars, lzVars, fsVars, kyVars, pgVars, mtVars, upVars, sbVars, cfVars, bvVars>>

\* ------------------------------------------------------- AudioDbService
\* simplifyArtistName(artistName) !== artistName: true of an artist name that
\* has a capital, a second word or punctuation.  Key 1 stands for such a name.
SimplifiedDiffers(k) == k = 1

Priorities == {"high", "normal", "low"}

\* const delay = priority === 'high' ? 0 : (priority === 'normal' ? 200 : 500)
PriorityDelay(p) == IF p = "high" THEN 0 ELSE IF p = "normal" THEN 200 ELSE 500

AdIdleCall == [kind |-> "none", key |-> 0, throws |-> FALSE, pc |-> "idle",
               req |-> 0, delivered |-> <<>>]
AdNoReq == [key |-> 0, phase |-> "none", result |-> None]

AdInit ==
  /\ adCache = [k \in Keys |-> None]
  /\ adQueue = [k \in Keys |-> 0]
  /\ adReq = [r \in CallIds |-> AdNoReq]
  /\ adSubs = [r \in CallIds |-> <<>>]
  /\ adCalls = [c \in CallIds |-> AdIdleCall]

\* A request has resolved and calls awaiting it have not run yet: their
\* continuations are queued microtasks and run before any other task.
AdSettling == \E r \in CallIds : adReq[r].phase = "resolved" /\ adSubs[r] # <<>>

\* The next unused call.
AdFresh(c) == /\ adCalls[c].pc = "idle"
              /\ \A d \in CallIds : d < c => adCalls[d].pc # "idle"

\* The request created by getAlbumCover (no delay) or by
\* loadAlbumCoverProgressive (delay by priority); the async body runs up to its
\* first await at once, so without delay strategy 1 is already in flight.
AdNewRequest(k, delay) ==
  [key |-> k, phase |-> IF delay > 0 THEN "delay" ELSE "s1", result |-> None]

\* getAlbumCover(songTitle, artistName), up to its first await.
AdGetAlbumCover(c, k) ==
  /\ AdFresh(c) /\ ~AdSettling
  /\ AdFrame
  /\ IF adCache[k] # None
       THEN \* cache hit: return this.cache.get(cacheKey)
            /\ adCalls' = [adCalls EXCEPT ![c] =
                 [kind |-> "get", key |-> k, throws |-> FALSE, pc |-> "done",
                  req |-> 0, delivered |-> <<adCache[k]>>]]
            /\ UNCHANGED <<adCache, adQueue, adReq, adSubs>>
       ELSE IF adQueue[k] # 0
       THEN \* return this.requestQueue.get(cacheKey)
            /\ adCalls' = [adCalls EXCEPT ![c] =
                 [kind |-> "get", key |-> k, throws |-> FALSE, pc |-> "joined",
                  req |-> adQueue[k], delivered |-> <<>>]]
            /\ adSubs' = [adSubs EXCEPT ![adQueue[k]] = Append(@, c)]
            /\ UNCHANGED <<adCache, adQueue, adReq>>
       ELSE \* new request, requestQueue.set, await request
            /\ adReq' = [adReq EXCEPT ![c] = AdNewRequest(k, 0)]
            /\ adQueue' = [adQueue EXCEPT ![k] = c]
            /\ adSubs' = [adSubs EXCEPT ![c] = <<c>>]
            /\ adCalls' = [adCalls EXCEPT ![c] =
                 [kind |-> "get", key |-> k, throws |-> FALSE, pc |-> "started",
                  req |-> c, delivered |-> <<>>]]
            /\ UNCHANGED adCache

\* loadAlbumCoverProgressive(songTitle, artistName, onCoverLoaded, priority),
\* up to its first await.  throws: the callback passed raises when called.
AdLoadProgressive(c, k, prio, throws) ==
  /\ AdFresh(c) /\ ~AdSettling
  /\ AdFrame
  /\ IF adCache[k] # None
       THEN \* cache hit: onCoverLoaded(cached); return
            /\ adCalls' = [adCalls EXCEPT ![c] =
                 [kind |-> "prog", key |-> k, throws |-> throws,
                  pc |-> IF throws THEN "rejected" ELSE "done",
                  req |-> 0, delivered |-> <<adCache[k]>>]]
            /\ UNCHANGED <<adCache, adQueue, adReq, adSubs>>
       ELSE IF adQueue[k] # 0
       THEN \* await this.requestQueue.get(cacheKey)
            /\ adCalls' = [adCalls EXCEPT ![c] =
                 [kind |-> "prog", key |-> k, throws |-> throws, pc |-> "joined",
                  req |-> adQueue[k], delivered |-> <<>>]]
            /\ adSubs' = [adSubs EXCEPT ![adQueue[k]] = Append(@, c)]
            /\ UNCHANGED <<adCache, adQueue, adReq>>
       ELSE /\ adReq' = [adReq EXCEPT ![c] = AdNewRequest(k, PriorityDelay(prio))]
            /\ adQueue' = [adQueue EXCEPT ![k] = c]
            /\ adSubs' = [adSubs EXCEPT ![c] = <<c>>]
            /\ adCalls' = [adCalls EXCEPT ![c] =
                 [kind |-> "prog", key |-> k, throws |-> throws, pc |-> "started",
                  req |-> c, delivered |-> <<>>]]
            /\ UNCHANGED adCache

\* The priority delay of a request elapses: fetchAlbumCoverFromiTunes starts.
AdDelayElapsed(r) ==
  /\ ~AdSettling
  /\ adReq[r].phase = "delay"
  /\ adReq' = [adReq EXCEPT ![r].phase = "s1"]
  /\ UNCHANGED <<adCache, adQueue, adSubs, adCalls>>
  /\ AdFrame

\* fetchAlbumCoverFromiTunes: what follows strategy `phase` when its search gave
\* `found` (a URL, or None for no result, no artwork or a caught error).
AdAfterSearch(req, found) ==
  IF found # None THEN [req EXCEPT !.phase = "resolved", !.result = found]
  ELSE IF req.phase = "s1" THEN [req EXCEPT !.phase = "s2"]
  ELSE IF req.phase = "s2" THEN [req EXCEPT !.phase = "s3"]
  ELSE IF req.phase = "s3" /\ SimplifiedDiffers(req.key)
         THEN [req EXCEPT !.phase = "s4"]
  ELSE [req EXCEPT !.phase = "resolved", !.result = Placeholder]

\* One searchiTunes call of a request returns.
AdSearchReturns(r, found) ==
  /\ ~AdSettling
  /\ adReq[r].phase \in {"s1", "s2", "s3", "s4"}
  /\ adReq' = [adReq EXCEPT ![r] = AdAfterSearch(@, found)]
  /\ UNCHANGED <<adCache, adQueue, adSubs, adCalls>>
  /\ AdFrame

\* A join that answers with the placeholder whatever the request came to.
AdAwaitedResultPlaceholder(r) == Placeholder
\* What `await this.requestQueue.get(cacheKey)` gives a call that joined: the
\* value the request resolved with.
AdAwaitedResult(r) == adReq[r].result

\* A call whose callback got v: a raising callback sends the call into its
\* catch block, which calls the callback again with the placeholder; that call
\* raises too and the promise of the call rejects.
AdNotify(call, v) ==
  IF call.throws
    THEN [call EXCEPT !.delivered = @ \o <<v, Placeholder>>, !.pc = "rejected"]
    ELSE [call EXCEPT !.delivered = Append(@, v), !.pc = "done"]

\* A settled promise that runs the reaction registered last first.
AdLastAwaiting(subs) == subs[Len(subs)]
\* The call whose continuation a settled request runs next: a promise runs its
\* reactions in the order the awaits registered them.
AdNextAwaiting(subs) == Head(subs)

\* The continuation of the first call awaiting a resolved request.
AdResume(c) ==
  /\ \E r \in CallIds :
       /\ adReq[r].phase = "resolved"
       /\ adSubs[r] # <<>> /\ AdNextAwaiting(adSubs[r]) = c
       /\ adSubs' = [adSubs EXCEPT ![r] = SelectSeq(@, LAMBDA d : d # c)]
       /\ LET call == adCalls[c]
              k == call.key
              v == adReq[r].result
          IN IF call.pc = "started"
               THEN \* the call that created the request
                    IF call.kind = "get"
                      THEN /\ adCache' = [adCache EXCEPT ![k] = v]
                           /\ adCalls' = [adCalls EXCEPT ![c] =
                                [call EXCEPT !.delivered = <<v>>, !.pc = "done"]]
                      ELSE /\ adCache' = [adCache EXCEPT ![k] =
                                IF call.throws THEN Placeholder ELSE v]
                           /\ adCalls' = [adCalls EXCEPT ![c] = AdNotify(call, v)]
               ELSE \* a call that joined
                    /\ adCache' = adCache
                    /\ adCalls' = [adCalls EXCEPT ![c] =
                         IF call.kind = "get"
                           THEN [call EXCEPT !.delivered = <<AdAwaitedResult(r)>>,
                                             !.pc = "done"]
                           ELSE AdNotify(call, AdAwaitedResult(r))]
       /\ adQueue' = IF adCalls[c].pc = "started"
                       THEN [adQueue EXCEPT ![adCalls[c].key] = 0]
                       ELSE adQueue
  /\ UNCHANGED adReq
  /\ AdFrame

AdNext ==
  \/ \E c \in CallIds, k \in Keys : AdGetAlbumCover(c, k)
  \/ \E c \in CallIds, k \in Keys, p \in Priorities, t \in BOOLEAN :
       AdLoadProgressive(c, k, p, t)
  \/ \E r \in CallIds : AdDelayElapsed(r)
  \/ \E r \in CallIds : \E f \in {CoverOf(adReq[r].key), None} : AdSearchReturns(r, f)
  \/ \E c \in CallIds : AdResume(c)

\* ------------------------------------------------------ iTunesAPIService
ItIdleCall == [key |-> 0, pc |-> "idle", ret |-> None]

ItInit ==
  /\ itCache = [k \in SongKeys |-> None]
  /\ itCalls = [c \in CallIds |-> ItIdleCall]
  /\ itFetches = [k \in SongKeys |-> 0]
  /\ itOverlap = {}
  /\ itResolved = {}
  /\ itEpoch = 0

ItFresh(c) == /\ itCalls[c].pc = "idle"
              /\ \A d \in CallIds : d < c => itCalls[d].pc # "idle"

\* The searchTrack calls whose fetch for key k is outstanding.
ItOutstanding(k) == {c \in CallIds : itCalls[c].pc = "fetching" /\ itCalls[c].key = k}

\* searchTrack(artist, track), up to `await fetch(url)`.
ItSearchTrack(c, k) ==
  /\ ItFresh(c)
  /\ IF itCache[k] # None
       THEN \* if (this.coverCache.has(cacheKey)) return this.coverCache.get(cacheKey)
            /\ itCalls' = [itCalls EXCEPT ![c] =
                 [key |-> k, pc |-> "done", ret |-> itCache[k]]]
            /\ itResolved' = itResolved \cup {k}
            /\ UNCHANGED <<itFetches, itOverlap>>
       ELSE /\ itCalls' = [itCalls EXCEPT ![c] =
                 [key |-> k, pc |-> "fetching", ret |-> None]]
            /\ itFetches' = [itFetches EXCEPT ![k] = @ + 1]
            /\ itOverlap' = IF ItOutstanding(k) # {} THEN itOverlap \cup {k}
                                                    ELSE itOverlap
            /\ UNCHANGED itResolved
  /\ UNCHANGED <<itCache, itEpoch>>
  /\ ItFrame

\* What searchTrack returns for an outcome of its fetch: the URL of the best
\* match, or null after `No cover found` and in the catch block.
ItResult(outcome) == IF outcome \in Failures THEN None ELSE outcome

\* The cache after searchTrack handled an outcome: only a found cover is stored.
ItCacheAfter(cache, k, outcome) ==
  IF outcome \in Failures THEN cache ELSE [cache EXCEPT ![k] = outcome]

\* The fetch of a searchTrack call settles and the call returns.
ItFetchReturns(c, outcome) ==
  /\ itCalls[c].pc = "fetching"
  /\ itCache' = ItCacheAfter(itCache, itCalls[c].key, outcome)
  /\ itCalls' = [itCalls EXCEPT ![c].pc = "done", ![c].ret = ItResult(outcome)]
  /\ itResolved' = itResolved \cup {itCalls[c].key}
  /\ UNCHANGED <<itFetches, itOverlap, itEpoch>>
  /\ ItFrame

\* iTunesAPIService.clearCache()
ItClearCache ==
  /\ itEpoch < MaxClears
  /\ itCache' = [k \in SongKeys |-> None]
  /\ itEpoch' = itEpoch + 1
  /\ itResolved' = {}
  /\ UNCHANGED <<itCalls, itFetches, itOverlap>>
  /\ ItFrame

ItNext ==
  \/ \E c \in CallIds, k \in SongKeys : ItSearchTrack(c, k)
  \/ \E c \in CallIds, o \in Outcomes : ItFetchReturns(c, o)
  \/ ItClearCache

\* ---------------------------------------------------- useLazyAlbumCovers
\* Every call of loadCoversBatch aborts the controller of the call before it, so
\* at most one call has a signal that is not aborted: lzBatch.  Of a call whose
\* signal is aborted only the load in flight still acts: lzOrphans.
LzNoBatch == [pc |-> "none", list |-> <<>>, i |-> 0, snap |-> {}, center |-> 0,
              from |-> "none", hit |-> FALSE, cover |-> None]

\* The hook as mounted with centerIndex c.
LzInitAt(c) ==
  /\ lzCenter = c
  /\ lzLoaded = [k \in SongKeys |-> None]
  /\ lzLoading = {}
  /\ lzFailed = {}
  /\ lzQueue = {}
  /\ lzBatch = LzNoBatch
  /\ lzOrphans = EmptyBag
  /\ lzDirty = TRUE
  /\ lzEpoch = 0
  /\ lzPreloads = 0
  /\ lzErrored = {}

LzLoadedKeys == {k \in SongKeys : lzLoaded[k] # None}

\* The indices lo..hi in ascending order.
LzRange(lo, hi) == [j \in 1..(hi - lo + 1) |-> lo + j - 1]

\* songsToLoad of the load effect: the songs of the preload window, then those of
\* the lazy window outside it, each in ascending index order, without the songs
\* loaded or loading.
LzPlan(center, loaded, loading) ==
  LET preloadStart == Max(0, center - PreloadRadius)
      preloadEnd == Min(NSongs - 1, center + PreloadRadius)
      lazyStart == Max(0, center - LazyLoadRadius)
      lazyEnd == Min(NSongs - 1, center + LazyLoadRadius)
      Wanted(i) == SongKey(i) \notin loaded /\ SongKey(i) \notin loading
  IN SelectSeq(LzRange(preloadStart, preloadEnd), Wanted)
       \o SelectSeq(LzRange(lazyStart, lazyEnd),
                    LAMBDA i : (i < preloadStart \/ i > preloadEnd) /\ Wanted(i))

\* loadCoversBatch after loadAlbumCover returned for item i with a signal that is
\* not aborted: the 200 ms delay when items remain, else the loop ends.
LzAfterItem(batch) ==
  IF batch.i < Len(batch.list)
    THEN [batch EXCEPT !.pc = "delay", !.hit = FALSE, !.cover = None]
    ELSE LzNoBatch

\* The key of the item a batch is at.
LzItemKey(batch) == SongKey(batch.list[batch.i])

\* loadAlbumCover(song, signal) for item i of the batch, up to its await of
\* searchTrack.  The skip test reads the state the callback closed over
\* (batch.snap) and the shared loadingQueue.
LzBegin(batch) ==
  LET k == LzItemKey(batch)
  IN IF k \in batch.snap \/ k \in lzQueue
       THEN /\ lzBatch' = LzAfterItem(batch)
            /\ lzDirty' = FALSE
            /\ UNCHANGED <<lzQueue, lzLoading>>
       ELSE /\ lzBatch' = [batch EXCEPT !.pc = "search", !.hit = (itCache[k] # None),
                                        !.cover = itCache[k]]
            /\ lzQueue' = lzQueue \cup {k}
            /\ lzLoading' = lzLoading \cup {k}
            /\ lzDirty' = TRUE

\* The loads in flight once the signal of lzBatch is aborted: the load of lzBatch
\* joins them; a batch in its delay breaks out of its loop and does nothing more.
\* cleared (history): the signal was aborted by clearCache.
LzOrphansAfterAbort(cleared) ==
  IF lzBatch.pc \in {"search", "preload"}
    THEN lzOrphans (+) SetToBag({[key |-> LzItemKey(lzBatch), pc |-> lzBatch.pc,
                                  hit |-> lzBatch.hit, cover |-> lzBatch.cover,
                                  cleared |-> cleared]})
    ELSE lzOrphans

\* loadCoversBatch(songsToLoad), up to its first await: the current controller is
\* aborted and replaced, and the first item starts.
LzLoadCoversBatch(list, from) ==
  /\ lzOrphans' = LzOrphansAfterAbort(FALSE)
  /\ LzBegin([pc |-> "start", list |-> list, i |-> 1,
              snap |-> LzLoadedKeys \cup lzLoading \cup lzFailed,
              center |-> lzCenter, from |-> from, hit |-> FALSE, cover |-> None])

\* The load effect, run after a render that changed songs, centerIndex or the
\* loaded or loading covers.
LzEffect ==
  /\ lzDirty
  /\ LET plan == LzPlan(lzCenter, LzLoadedKeys, lzLoading)
     IN IF plan = <<>>
          THEN /\ lzDirty' = FALSE
               /\ UNCHANGED <<lzBatch, lzOrphans, lzQueue, lzLoading>>
          ELSE LzLoadCoversBatch(plan, "effect")
  /\ UNCHANGED <<lzCenter, lzLoaded, lzFailed, lzEpoch, lzPreloads, lzErrored, itCache>>
  /\ LzFrame

\* The lists preloadCoversBatch is called with.
LzLists == {<<i, j>> : i \in Positions, j \in Positions}

\* preloadCoversBatch(songsToPreload), called by the owner of the hook.
LzPreloadCoversBatch(list) ==
  /\ ~lzDirty
  /\ lzPreloads < MaxPreloads
  /\ lzPreloads' = lzPreloads + 1
  /\ LzLoadCoversBatch(list, "preload")
  /\ UNCHANGED <<lzCenter, lzLoaded, lzFailed, lzEpoch, lzErrored, itCache>>
  /\ LzFrame

\* The outcome of the fetch for key k.
LzOutcome(k, o) == IF o = "found" THEN CoverOf(k) ELSE o

\* What happens to the hook state once loadAlbumCover has a cover (or null) for
\* key k and its signal is not aborted: null becomes the fallback, a data: URL
\* that is stored at once; a URL is preloaded first (stored = FALSE).
LzStoreFallback(k) ==
  /\ lzLoaded' = [lzLoaded EXCEPT ![k] = Fallback(k)]
  /\ lzLoading' = lzLoading \ {k}
  /\ lzDirty' = TRUE

\* searchTrack of the item of lzBatch returns: loadAlbumCover goes on to the
\* abort test (not aborted), the fallback for a null cover and the image preload
\* of a URL.  A cover that was in the service cache comes back in a microtask,
\* which may run before or after the pending render.
LzSearchReturns(o) ==
  /\ lzBatch.pc = "search"
  /\ IF lzBatch.hit THEN o = "empty" ELSE ~lzDirty
  /\ LET k == LzItemKey(lzBatch)
         cover == IF lzBatch.hit THEN lzBatch.cover ELSE ItResult(LzOutcome(k, o))
     IN /\ itCache' = IF lzBatch.hit THEN itCache
                                     ELSE ItCacheAfter(itCache, k, LzOutcome(k, o))
        /\ IF cover = None
             THEN /\ LzStoreFallback(k)
                  /\ lzQueue' = lzQueue \ {k}
                  /\ lzBatch' = LzAfterItem(lzBatch)
                  /\ lzErrored' = lzErrored \cup {k}
             ELSE /\ lzBatch' = [lzBatch EXCEPT !.pc = "preload", !.cover = cover]
                  /\ UNCHANGED <<lzLoaded, lzLoading, lzDirty, lzQueue, lzErrored>>
  /\ UNCHANGED <<lzCenter, lzFailed, lzOrphans, lzEpoch, lzPreloads>>
  /\ LzFrame

\* searchTrack of a load whose signal is aborted returns: loadAlbumCover throws
\* 'Request aborted', its catch block only logs, and finally the key leaves the
\* loadingQueue.  The service has cached a cover it found.
LzOrphanSearchReturns(r, o) ==
  /\ BagIn(r, lzOrphans) /\ r.pc = "search"
  /\ IF r.hit THEN o = "empty" ELSE ~lzDirty
  /\ itCache' = IF r.hit THEN itCache ELSE ItCacheAfter(itCache, r.key, LzOutcome(r.key, o))
  /\ lzOrphans' = lzOrphans (-) SetToBag({r})
  /\ lzQueue' = lzQueue \ {r.key}
  /\ lzErrored' = IF ~r.hit /\ o \in Failures THEN lzErrored \cup {r.key} ELSE lzErrored
  /\ UNCHANGED <<lzCenter, lzLoaded, lzLoading, lzFailed, lzBatch, lzDirty, lzEpoch,
                 lzPreloads>>
  /\ LzFrame

\* The image preload of the item of lzBatch settles: onload (ok), or onerror or
\* the 10 s timeout, after which the catch block stores the fallback.
LzPreloadSettles(ok) ==
  /\ ~lzDirty
  /\ lzBatch.pc = "preload"
  /\ LET k == LzItemKey(lzBatch)
     IN /\ lzQueue' = lzQueue \ {k}
        /\ lzBatch' = LzAfterItem(lzBatch)
        /\ IF ok
             THEN /\ lzLoaded' = [lzLoaded EXCEPT ![k] = lzBatch.cover]
                  /\ lzLoading' = lzLoading \ {k}
                  /\ lzDirty' = TRUE
                  /\ UNCHANGED <<lzFailed, lzErrored>>
             ELSE /\ LzStoreFallback(k)
                  /\ lzFailed' = lzFailed \cup {k}
                  /\ lzErrored' = lzErrored \cup {k}
  /\ UNCHANGED <<lzCenter, lzOrphans, lzEpoch, lzPreloads, itCache>>
  /\ LzFrame

\* The image preload of a load whose signal is aborted settles.  No abort test
\* follows a preload that succeeded: the cover is stored.  After a failure the
\* catch block sees the aborted signal and only logs.
LzOrphanPreloadSettles(r, ok) ==
  /\ ~lzDirty
  /\ BagIn(r, lzOrphans) /\ r.pc = "preload"
  /\ lzOrphans' = lzOrphans (-) SetToBag({r})
  /\ lzQueue' = lzQueue \ {r.key}
  /\ IF ok
       THEN /\ lzLoaded' = [lzLoaded EXCEPT ![r.key] = r.cover]
            /\ lzLoading' = lzLoading \ {r.key}
            /\ lzDirty' = TRUE
            /\ UNCHANGED lzErrored
       ELSE /\ lzErrored' = lzErrored \cup {r.key}
            /\ UNCHANGED <<lzLoaded, lzLoading, lzDirty>>
  /\ UNCHANGED <<lzCenter, lzFailed, lzBatch, lzEpoch, lzPreloads, itCache>>
  /\ LzFrame

\* The 200 ms delay of lzBatch ends and its next item starts.
LzDelayElapsed ==
  /\ ~lzDirty
  /\ lzBatch.pc = "delay"
  /\ LzBegin([lzBatch EXCEPT !.i = @ + 1])
  /\ UNCHANGED <<lzCenter, lzLoaded, lzFailed, lzOrphans, lzEpoch, lzPreloads,
                 lzErrored, itCache>>
  /\ LzFrame

\* The owner of the hook passes another centerIndex.
LzSetCenter(c) ==
  /\ ~lzDirty
  /\ c # lzCenter
  /\ lzCenter' = c
  /\ lzDirty' = TRUE
  /\ UNCHANGED <<lzLoaded, lzLoading, lzFailed, lzQueue, lzBatch, lzOrphans,
                 lzEpoch, lzPreloads, lzErrored, itCache>>
  /\ LzFrame

\* clearCache() of the hook: the current controller is aborted, the state and
\* the loadingQueue are emptied and the service cache is cleared.
LzClearCache ==
  /\ ~lzDirty
  /\ lzEpoch < MaxClears
  /\ lzEpoch' = lzEpoch + 1
  /\ lzOrphans' = LzOrphansAfterAbort(TRUE)
  /\ lzBatch' = LzNoBatch
  /\ lzLoaded' = [k \in SongKeys |-> None]
  /\ lzLoading' = {}
  /\ lzFailed' = {}
  /\ lzDirty' = TRUE
  /\ itCache' = [k \in SongKeys |-> None]
  /\ lzQueue' = {}
  /\ lzErrored' = {}
  /\ UNCHANGED <<lzCenter, lzPreloads>>
  /\ LzFrame

\* The loads in flight of aborted batches.
LzOrphanLoads == BagToSet(lzOrphans)

LzNext ==
  \/ LzEffect
  \/ \E l \in LzLists : LzPreloadCoversBatch(l)
  \/ \E o \in Failures \cup {"found"} : LzSearchReturns(o)
  \/ \E r \in LzOrphanLoads, o \in Failures \cup {"found"} : LzOrphanSearchReturns(r, o)
  \/ \E ok \in BOOLEAN : LzPreloadSettles(ok)
  \/ \E r \in LzOrphanLoads, ok \in BOOLEAN : LzOrphanPreloadSettles(r, ok)
  \/ LzDelayElapsed
  \/ \E c \in Positions : LzSetCenter(c)
  \/ LzClearCache

\* ------------------------------- FastItunesService and useFastAlbumCovers
\* What FastItunesService.getAlbumCover returns for an outcome of its fetch: the
\* artwork of the first result that has one, or null.
FiResult(outcome) == IF outcome \in Failures THEN None ELSE outcome

\* The cache after getAlbumCover handled an outcome: only a found cover is stored.
FiCacheAfter(cache, k, outcome) ==
  IF outcome \in Failures THEN cache ELSE [cache EXCEPT ![k] = outcome]

\* const batchSize = 3 of loadBackground.
BatchSize == 3

FsNoTimer == [pc |-> "none", list |-> <<>>, snap |-> {}]

FsInit ==
  /\ fiCache = [k \in SongKeys |-> None]
  /\ fsCenter = 0
  /\ fsLoaded = [k \in SongKeys |-> None]
  /\ fsAttempted = {}
  /\ fsQueue = {}
  /\ fsRuns = EmptyBag
  /\ fsTimer = FsNoTimer
  /\ fsDirty = "state"
  /\ fsMoves = 0
  /\ fsFailed = {}

FsLoadedKeys == {k \in SongKeys : fsLoaded[k] # None}

\* The songs at distance radius from the center: the previous one, then the next.
FsRing(center, radius) ==
  (IF center - radius >= 0 THEN <<center - radius>> ELSE <<>>)
    \o (IF center + radius < NSongs THEN <<center + radius>> ELSE <<>>)

RECURSIVE FsRings(_, _)
FsRings(center, radius) ==
  IF radius > PreloadRadius THEN <<>>
  ELSE FsRing(center, radius) \o FsRings(center, radius + 1)

\* songsToLoad of the priority effect: the center song, then the songs around
\* it, expanding outward.
FsOrder(center) == <<center>> \o FsRings(center, 1)

\* remainingSongs of the background effect, in list order.
FsRemaining(queue) ==
  SelectSeq(LzRange(0, NSongs - 1),
            LAMBDA i : /\ SongKey(i) \notin fsAttempted
                       /\ SongKey(i) \notin FsLoadedKeys
                       /\ SongKey(i) \notin queue)

\* A loop over list that calls loadCover for size songs at a time: loadSequence
\* (size 1) or loadBackground (size batchSize).  snap is the state the loadCover
\* it calls closed over; pending are its calls of getAlbumCover in flight.
FsRun(list, size) ==
  [list |-> list, i |-> 1, size |-> size, snap |-> fsAttempted \cup FsLoadedKeys,
   pc |-> "start", pending |-> {}]

\* The keys of the songs a run calls loadCover for in its current round.
FsBatchKeys(run) ==
  {SongKey(run.list[j]) : j \in run.i .. Min(run.i + run.size - 1, Len(run.list))}

\* The keys loadCover does not skip: not attempted or loaded in the state it
\* closed over, and not in the loadingQueue.
FsStarted(run) == {k \in FsBatchKeys(run) : k \notin run.snap /\ k \notin fsQueue}

\* The keys of the songs a run has still to call loadCover for after this round.
FsLaterKeys(run) == {SongKey(run.list[j]) : j \in (run.i + run.size)..Len(run.list)}

\* The run once the loadCover calls of its round have returned: the delay when
\* songs remain, else the loop is over.  A loop whose remaining songs are all
\* attempted or loaded in the state its loadCover closed over only skips from
\* here on, and is dropped.
FsAfterBatch(run) ==
  IF run.i + run.size <= Len(run.list) /\ ~(FsLaterKeys(run) \subseteq run.snap)
    THEN SetToBag({[run EXCEPT !.pc = "delay", !.pending = {}]})
    ELSE EmptyBag

\* The run after the loadCover calls of its round were made.  getAlbumCover
\* answers from the service cache (hit) or fetches.
FsBegun(run) ==
  IF FsStarted(run) = {}
    THEN FsAfterBatch(run)
    ELSE SetToBag({[run EXCEPT !.pc = "load",
                               !.pending = {[key |-> k, hit |-> fiCache[k] # None] :
                                              k \in FsStarted(run)}]})

\* The two effects of the hook, run after a render.  The priority effect (every
\* render that changed centerIndex or loadCover) starts a loadSequence.  The
\* background effect (every render that changed the loaded or attempted covers)
\* clears its timer and sets a new one when enough covers are loaded and songs
\* remain.
FsEffect ==
  /\ fsDirty # "none"
  /\ LET run == FsRun(FsOrder(fsCenter), 1)
         queue == fsQueue \cup FsStarted(run)
     IN /\ fsRuns' = fsRuns (+) FsBegun(run)
        /\ fsQueue' = queue
        /\ fsTimer' =
             IF fsDirty = "center" THEN fsTimer
             ELSE IF Cardinality(FsLoadedKeys) >= PreloadRadius * 2
                     /\ FsRemaining(queue) # <<>>
                    THEN [pc |-> "set", list |-> FsRemaining(queue),
                          snap |-> fsAttempted \cup FsLoadedKeys]
                    ELSE FsNoTimer
  /\ fsDirty' = "none"
  /\ UNCHANGED <<fiCache, fsCenter, fsLoaded, fsAttempted, fsMoves, fsFailed>>
  /\ FsFrame

\* The 1000 ms timer of the background effect fires: loadBackground starts.
FsBackgroundTimer ==
  /\ fsDirty = "none"
  /\ fsTimer.pc = "set"
  /\ LET run == [FsRun(fsTimer.list, BatchSize) EXCEPT !.snap = fsTimer.snap]
     IN /\ fsRuns' = fsRuns (+) FsBegun(run)
        /\ fsQueue' = fsQueue \cup FsStarted(run)
  /\ fsTimer' = FsNoTimer
  /\ UNCHANGED <<fiCache, fsCenter, fsLoaded, fsAttempted, fsDirty, fsMoves, fsFailed>>
  /\ FsFrame

\* An update of attemptedLoads from the set loadCover closed over.
FsAttemptedStale(prev, closed, k) == closed \cup {k}
\* setAttemptedLoads(prev => new Set([...prev, cacheKey])): the update starts
\* from the current set, not from the one loadCover closed over.
FsAttemptedAfter(prev, closed, k) == prev \cup {k}

\* getAlbumCover(song.artist, song.title) of a loadCover call returns, and
\* loadCover stores the cover, marks the key attempted and takes it out of the
\* loadingQueue.
FsCoverReturns(run, p, o) ==
  /\ fsDirty = "none"
  /\ BagIn(run, fsRuns) /\ run.pc = "load" /\ p \in run.pending
  /\ p.hit => o = "found"
  /\ LET k == p.key
         outcome == LzOutcome(k, o)
         cover == IF p.hit THEN fiCache[k] ELSE FiResult(outcome)
         left == [run EXCEPT !.pending = @ \ {p}]
     IN /\ fiCache' = IF p.hit THEN fiCache ELSE FiCacheAfter(fiCache, k, outcome)
        /\ fsLoaded' = IF cover # None THEN [fsLoaded EXCEPT ![k] = cover] ELSE fsLoaded
        /\ fsAttempted' = FsAttemptedAfter(fsAttempted, run.snap, k)
        /\ fsQueue' = fsQueue \ {k}
        /\ fsFailed' = IF cover = None THEN fsFailed \cup {k} ELSE fsFailed
        /\ fsRuns' = (fsRuns (-) SetToBag({run}))
                       (+) (IF left.pending = {} THEN FsAfterBatch(left)
                                                 ELSE SetToBag({left}))
  /\ fsDirty' = "state"
  /\ UNCHANGED <<fsCenter, fsTimer, fsMoves>>
  /\ FsFrame

\* The delay of a run ends (50 ms in loadSequence, 200 ms in loadBackground) and
\* its next round starts.
FsDelayElapsed(run) ==
  /\ fsDirty = "none"
  /\ BagIn(run, fsRuns) /\ run.pc = "delay"
  /\ LET next == [run EXCEPT !.i = @ + run.size]
     IN /\ fsRuns' = (fsRuns (-) SetToBag({run})) (+) FsBegun(next)
        /\ fsQueue' = fsQueue \cup FsStarted(next)
  /\ UNCHANGED <<fiCache, fsCenter, fsLoaded, fsAttempted, fsTimer, fsDirty, fsMoves,
                 fsFailed>>
  /\ FsFrame

\* The owner of the hook passes another centerIndex.
FsSetCenter(c) ==
  /\ fsDirty = "none"
  /\ fsMoves < MaxMoves
  /\ c # fsCenter
  /\ fsCenter' = c
  /\ fsMoves' = fsMoves + 1
  /\ fsDirty' = "center"
  /\ UNCHANGED <<fiCache, fsLoaded, fsAttempted, fsQueue, fsRuns, fsTimer, fsFailed>>
  /\ FsFrame

\* The running loops.
FsRunning == BagToSet(fsRuns)

FsNext ==
  \/ FsEffect
  \/ FsBackgroundTimer
  \/ \E run \in FsRunning : \E p \in run.pending : \E o \in Failures \cup {"found"} :
       FsCoverReturns(run, p, o)
  \/ \E run \in FsRunning : FsDelayElapsed(run)
  \/ \E c \in Positions : FsSetCenter(c)

\* ------------------------------------------------------------- cache keys
\* The characters of the names: a letter in lower and in upper case, and a space.
Chars == {"a", "A", " "}

\* The strings of at most n characters.
StringsUpTo(n) == UNION {[1..m -> Chars] : m \in 0..n}

\* String.prototype.toLowerCase
ToLowerCase(str) == [j \in 1..Len(str) |-> IF str[j] = "A" THEN "a" ELSE str[j]]

\* `${artist.toLowerCase()}-${track.toLowerCase()}` of iTunesAPIService.searchTrack
ItCacheKey(artist, track) == ToLowerCase(artist) \o <<"-">> \o ToLowerCase(track)

\* `${artist.toLowerCase()}-${track.toLowerCase()}` of FastItunesService.getAlbumCover
FiCacheKey(artist, track) == ToLowerCase(artist) \o <<"-">> \o ToLowerCase(track)

\* getCacheKey(song) of useFastAlbumCovers
GetCacheKey(artist, title) == ToLowerCase(artist) \o <<"-">> \o ToLowerCase(title)

\* `${artistName}-${songTitle}` of AudioDbService
AdCacheKey(artistName, songTitle) == artistName \o <<"-">> \o songTitle

\* `${song.artist}-${song.title}` of useLazyAlbumCovers
LzSongKey(artist, title) == artist \o <<"-">> \o title

\* getSongKey(song) of useProgressiveAlbumCovers
GetSongKey(artist, title) == artist \o <<"-">> \o title

\* Two artist names and two titles, and no key built yet.
KyInitAt(artists, titles) ==
  /\ kyArtist = artists
  /\ kyTitle = titles
  /\ kyBuilder = "none"
  /\ kyKeys = <<>>

\* A component builds the keys of the two (artist, title) pairs.
KyBuilt(builder, key1, key2) ==
  /\ kyBuilder = "none"
  /\ kyBuilder' = builder
  /\ kyKeys' = <<key1, key2>>
  /\ UNCHANGED <<kyArtist, kyTitle>>
  /\ KyFrame

KySearchTrack ==
  KyBuilt("iTunesAPIService", ItCacheKey(kyArtist[1], kyTitle[1]),
          ItCacheKey(kyArtist[2], kyTitle[2]))

KyFastGetAlbumCover ==
  KyBuilt("FastItunesService", FiCacheKey(kyArtist[1], kyTitle[1]),
          FiCacheKey(kyArtist[2], kyTitle[2]))

KyGetCacheKey ==
  KyBuilt("useFastAlbumCovers", GetCacheKey(kyArtist[1], kyTitle[1]),
          GetCacheKey(kyArtist[2], kyTitle[2]))

KyGetAlbumCover ==
  KyBuilt("AudioDbService", AdCacheKey(kyArtist[1], kyTitle[1]),
          AdCacheKey(kyArtist[2], kyTitle[2]))

KyLoadAlbumCover ==
  KyBuilt("useLazyAlbumCovers", LzSongKey(kyArtist[1], kyTitle[1]),
          LzSongKey(kyArtist[2], kyTitle[2]))

KyGetSongKey ==
  KyBuilt("useProgressiveAlbumCovers", GetSongKey(kyArtist[1], kyTitle[1]),
          GetSongKey(kyArtist[2], kyTitle[2]))

KyNext ==
  \/ KySearchTrack
  \/ KyFastGetAlbumCover
  \/ KyGetCacheKey
  \/ KyGetAlbumCover
  \/ KyLoadAlbumCover
  \/ KyGetSongKey

\* ---------------------------------------------- useProgressiveAlbumCovers
\* The songs have distinct ids and distinct artist-title pairs: the song at index
\* i has id and cache key i + 1.  A list that replaces songs holds the first
\* songs of the first list, so a song keeps its index.
PgPositions == 0..(NProgSongs - 1)
PgIds == 1..NProgSongs
PgId(i) == i + 1

\* visibleRange: undefined, or { start, end }.  The ranges the owner passes:
\* none, the whole list, or its last two songs.
PgNoRange == [on |-> FALSE, start |-> 0, end |-> 0]
PgRanges == {PgNoRange} \cup
            {[on |-> TRUE, start |-> s, end |-> NProgSongs - 1] :
               s \in {0, NProgSongs - 2}}

PgNoReq == [phase |-> "none", prio |-> "none"]
PgDone == [pc |-> "done", len |-> 0, visible |-> PgNoRange, center |-> 0,
           rem |-> <<>>, i |-> 0]

\* The hook as mounted with n songs, centerIndex c and visibleRange v, before
\* its effects ran, over a service that has cached nothing.
PgInitAt(n, c, v) ==
  /\ pgLen = n /\ pgCenter = c /\ pgVisible = v
  /\ pgCovers = [id \in PgIds |-> None]
  /\ pgCount = 0
  /\ pgQueue = {} /\ pgLoadedIds = {} /\ pgLoading = {}
  /\ pgCache = [k \in PgIds |-> None]
  /\ pgReq = [k \in PgIds |-> PgNoReq]
  /\ pgSubs = [k \in PgIds |-> 0]
  /\ pgPasses = EmptyBag
  /\ pgDirty = "songs"
  /\ pgLists = 0 /\ pgReplans = 0
  /\ pgRank = [id \in PgIds |-> 0]
  /\ pgClock = 0 /\ pgPlanStart = 0

\* The state a synchronous stretch of the hook reads and writes.
PgState == [covers |-> pgCovers, count |-> pgCount, queue |-> pgQueue,
            loaded |-> pgLoadedIds, loading |-> pgLoading, req |-> pgReq,
            subs |-> pgSubs, rank |-> pgRank, clock |-> pgClock]

PgStore(st) ==
  /\ pgCovers' = st.covers /\ pgCount' = st.count /\ pgQueue' = st.queue
  /\ pgLoadedIds' = st.loaded /\ pgLoading' = st.loading /\ pgReq' = st.req
  /\ pgSubs' = st.subs /\ pgRank' = st.rank /\ pgClock' = st.clock

\* The callback loadSongCover passes to the service, called n times with a cover
\* for song id.
PgOnCoverLoaded(st, id, cover, n) ==
  [st EXCEPT !.covers[id] = cover, !.loaded = @ \cup {id}, !.count = @ + n,
             !.loading = @ \ {id}]

\* loadSongCover(song, priority) up to its await: skipped for a song loaded or
\* loading; else loadAlbumCoverProgressive answers from the cache at once, joins
\* the request pending for the key, or creates a request that starts its fetch
\* after the delay of the priority.
PgLoadSongCover(st, id, prio) ==
  IF id \in st.loaded \/ id \in st.queue THEN st
  ELSE LET called == [st EXCEPT !.rank[id] = st.clock + 1, !.clock = @ + 1]
           waiting == [called EXCEPT !.queue = @ \cup {id},
                                     !.loading = @ \cup {id}]
       IN IF pgCache[id] # None
            THEN PgOnCoverLoaded(called, id, pgCache[id], 1)
          ELSE IF st.req[id].phase # "none"
            THEN [waiting EXCEPT !.subs[id] = @ + 1]
          ELSE [waiting EXCEPT !.subs[id] = 1,
                  !.req[id] = [phase |-> IF PriorityDelay(prio) > 0 THEN "delay"
                                                                    ELSE "fetch",
                               prio |-> prio]]

\* loadSongCover for each <<id, priority>> of a list, in order.
RECURSIVE PgSubmitAll(_, _)
PgSubmitAll(st, calls) ==
  IF calls = <<>> THEN st
  ELSE PgSubmitAll(PgLoadSongCover(st, Head(calls)[1], Head(calls)[2]), Tail(calls))

\* Phase 2: songs.slice(max(0, start), min(length, end + 1)), the first three
\* with priority high and the others with normal.
PgVisibleCalls(len, v) ==
  LET lo == Max(0, v.start)
      hi == Min(len, v.end + 1)
  IN IF v.on /\ hi > lo
       THEN [j \in 1..(hi - lo) |-> <<PgId(lo + j - 1),
                                      IF j - 1 < 3 THEN "high" ELSE "normal">>]
       ELSE <<>>

\* Phase 3 from item i of remainingSongs up to the next pause or the end.
PgBackground(st, pass) ==
  LET n == Len(pass.rem)
      hi == Min(pass.i + 3, n)
      calls == [j \in 1..(hi - pass.i) |-> <<pass.rem[pass.i + j], "low">>]
  IN [st |-> PgSubmitAll(st, calls),
      next |-> IF hi < n THEN [pass EXCEPT !.pc = "pause", !.i = hi] ELSE PgDone]

\* loadCovers after Phase 1: the visible songs, then the songs of its list that
\* are not loaded, three at a time.
PgPhases23(st, pass) ==
  LET st2 == PgSubmitAll(st, PgVisibleCalls(pass.len, pass.visible))
      rem == SelectSeq([j \in 1..pass.len |-> PgId(j - 1)],
                       LAMBDA id : id \notin st2.loaded)
  IN PgBackground(st2, [pass EXCEPT !.rem = rem, !.i = 0])

\* loadCovers() of the effect, up to its first await that suspends it.
PgLoadCovers(st, len, center, visible) ==
  LET pass == [pc |-> "center", len |-> len, visible |-> visible,
               center |-> center, rem |-> <<>>, i |-> 0]
      id == PgId(center)
      st1 == PgLoadSongCover(st, id, "high")
  IN IF id \notin st.loaded /\ id \notin st.queue /\ pgCache[id] = None
       THEN [st |-> st1, next |-> pass]
       ELSE PgPhases23(st1, pass)

PgPassBag(pass) == IF pass.pc = "done" THEN EmptyBag ELSE SetToBag({pass})

\* The effects after a render that changed props: for new songs the first
\* effect resets the covers, the count and the two refs; then loadCovers starts.
PgEffect ==
  /\ pgDirty # "none"
  /\ LET st0 == IF pgDirty = "songs"
                  THEN [PgState EXCEPT
                          !.covers = [id \in PgIds |->
                                        IF id <= pgLen THEN Placeholder ELSE None],
                          !.count = 0, !.loaded = {}, !.queue = {}]
                  ELSE PgState
         r == PgLoadCovers(st0, pgLen, pgCenter, pgVisible)
     IN /\ PgStore(r.st)
        /\ pgPasses' = pgPasses (+) PgPassBag(r.next)
  /\ pgDirty' = "none"
  /\ UNCHANGED <<pgLen, pgCenter, pgVisible, pgCache, pgLists, pgReplans, pgPlanStart>>
  /\ PgFrame

\* The loadCovers runs awaiting loadSongCover(songs[centerIndex]) for key k go on
\* to their phases 2 and 3, one after the other.
RECURSIVE PgResumeAll(_, _, _)
PgResumeAll(st, passes, k) ==
  LET ready == {p \in BagToSet(passes) : p.pc = "center" /\ PgId(p.center) = k}
  IN IF ready = {} THEN [st |-> st, passes |-> passes]
     ELSE LET p == CHOOSE q \in ready : TRUE
              r == PgPhases23(st, p)
              out == PgResumeAll(r.st, passes (-) SetToBag({p}), k)
          IN [st |-> out.st, passes |-> out.passes (+) PgPassBag(r.next)]

\* fetchAlbumCoverFromiTunes of the request for key k returns a cover or the
\* placeholder: the cover is cached, every call awaiting the request calls its
\* callback and leaves the loadingQueue, and the loadCovers runs awaiting such a
\* call go on.
PgFetchReturns(k, found) ==
  /\ pgDirty = "none"
  /\ pgReq[k].phase = "fetch"
  /\ LET cover == IF found THEN CoverOf(k) ELSE Placeholder
         st1 == PgOnCoverLoaded([PgState EXCEPT !.queue = @ \ {k},
                                                !.req[k] = PgNoReq,
                                                !.subs[k] = 0],
                                k, cover, pgSubs[k])
         out == PgResumeAll(st1, pgPasses, k)
     IN /\ pgCache' = [pgCache EXCEPT ![k] = cover]
        /\ PgStore(out.st)
        /\ pgPasses' = out.passes
  /\ UNCHANGED <<pgLen, pgCenter, pgVisible, pgDirty, pgLists, pgReplans, pgPlanStart>>
  /\ PgFrame

\* The priority delay of the request for key k elapses: its fetch starts.
PgDelayElapsed(k) ==
  /\ pgDirty = "none"
  /\ pgReq[k].phase = "delay"
  /\ pgReq' = [pgReq EXCEPT ![k].phase = "fetch"]
  /\ UNCHANGED <<pgLen, pgCenter, pgVisible, pgCovers, pgCount, pgQueue, pgLoadedIds,
                 pgLoading, pgCache, pgSubs, pgPasses, pgDirty, pgLists, pgReplans,
                 pgRank, pgClock, pgPlanStart>>
  /\ PgFrame

\* The 1000 ms pause of a loadCovers run in Phase 3 elapses.
PgPauseElapsed(pass) ==
  /\ pgDirty = "none"
  /\ BagIn(pass, pgPasses) /\ pass.pc = "pause"
  /\ LET r == PgBackground(PgState, pass)
     IN /\ PgStore(r.st)
        /\ pgPasses' = (pgPasses (-) SetToBag({pass})) (+) PgPassBag(r.next)
  /\ UNCHANGED <<pgLen, pgCenter, pgVisible, pgCache, pgDirty, pgLists, pgReplans,
                 pgPlanStart>>
  /\ PgFrame

\* The owner renders the hook with another centerIndex or visibleRange.
PgSetPlan(c, v) ==
  /\ pgDirty = "none"
  /\ pgReplans < MaxReplans
  /\ c < pgLen
  /\ <<c, v>> # <<pgCenter, pgVisible>>
  /\ pgCenter' = c /\ pgVisible' = v
  /\ pgDirty' = "plan"
  /\ pgReplans' = pgReplans + 1
  /\ pgPlanStart' = pgClock
  /\ UNCHANGED <<pgLen, pgCovers, pgCount, pgQueue, pgLoadedIds, pgLoading, pgCache,
                 pgReq, pgSubs, pgPasses, pgLists, pgRank, pgClock>>
  /\ PgFrame

\* The owner renders the hook with another songs array of n songs (the same
\* songs in a new array, or fewer, as a search gives) and centerIndex c.
PgSetSongs(n, c) ==
  /\ pgDirty = "none"
  /\ pgLists < MaxLists
  /\ c < n
  /\ pgLen' = n /\ pgCenter' = c
  /\ pgDirty' = "songs"
  /\ pgLists' = pgLists + 1
  /\ pgPlanStart' = pgClock
  /\ UNCHANGED <<pgVisible, pgCovers, pgCount, pgQueue, pgLoadedIds, pgLoading,
                 pgCache, pgReq, pgSubs, pgPasses, pgReplans, pgRank, pgClock>>
  /\ PgFrame

PgSuspended == BagToSet(pgPasses)

PgNext ==
  \/ PgEffect
  \/ \E k \in PgIds, found \in BOOLEAN : PgFetchReturns(k, found)
  \/ \E k \in PgIds : PgDelayElapsed(k)
  \/ \E pass \in PgSuspended : PgPauseElapsed(pass)
  \/ \E c \in PgPositions, v \in PgRanges : PgSetPlan(c, v)
  \/ \E n \in 1..NProgSongs, c \in PgPositions : PgSetSongs(n, c)

\* ------------------------------------------------------ matching: state
\* No URL: a candidate without artworkUrl100.
NoUrl == <<>>
\* null, as a search returns it.
Null == [found |-> FALSE, url |-> NoUrl]
\* No image: the entry holds a cover of the store.
NoImage == [hue |-> 0, saturation |-> 0, lightness |-> 0, artist |-> <<>>, title |-> <<>>]
\* Nothing stored.
NoEntry == [kind |-> "none", url |-> NoUrl, image |-> NoImage]

\* No search has been made and no image generated.
MtInit ==
  /\ mtService = "none"
  /\ mtArtist = <<>>
  /\ mtTrack = <<>>
  /\ mtResults = <<>>
  /\ mtScores = <<>>
  /\ mtChosen = 0
  /\ mtCover = Null
  /\ mtEntry = NoEntry
  /\ mtImages = <<>>

\* ---------------------------------------------- AlbumCoverUpdater: state
UpIdleCall == [kind |-> "none", pc |-> "idle", i |-> 0, total |-> 0,
               completed |-> 0, failed |-> 0]

\* The updater as constructed: no update in progress, no callback.
UpInit ==
  /\ upInProgress = FALSE
  /\ upCallback = "none"
  /\ upCalls = [c \in CallIds |-> UpIdleCall]

\* ------------------------------------------------------ SearchBar: state
\* No timer pending.
SbNoTimeout == [armed |-> FALSE, value |-> <<>>]

\* The search bar as mounted: an empty query, no timer, onSearch not called.
SbInit ==
  /\ sbQuery = <<>>
  /\ sbTimeout = SbNoTimeout
  /\ sbLast = [called |-> FALSE, query |-> <<>>]
  /\ sbSearches = 0

\* ------------------------------------------------- App and CoverFlow: state
\* The songs of the local database, by id.
NCfSongs == 3
\* getTrendingSongs(): every song of the database.
CfTrending == [j \in 1..NCfSongs |-> j]

\* App as mounted: no songs, loading, and the fetchSongs() of the mount effect
\* in flight.
CfInit ==
  /\ cfSongs = <<>>
  /\ cfLoading = TRUE
  /\ cfPending = <<CfTrending>>
  /\ cfFetches = 1
  /\ cfSelected = 0
  /\ cfAppIndex = 0
  /\ cfMounted = FALSE
  /\ cfIndex = 0
  /\ cfDragging = FALSE
  /\ cfUndefined = FALSE

\* ------------------------------------------- SimpleBackgroundVideo: state
\* The component as mounted, playing: the iframe of the first video is loading.
BvInit ==
  /\ bvYoutubeId = 1
  /\ bvHasError = FALSE
  /\ bvRetryCount = 0
  /\ bvIsLoading = TRUE
  /\ bvIframe = "loading"
  /\ bvTimers = 0
  /\ bvErrors = 0
  /\ bvRetries = 0
  /\ bvChanges = 0

\* --------------------------------------------- getFallbackArtwork: state
\* A number of at most 32 bits and its sign: its magnitude is hi * 2^16 + lo.
Zero == [neg |-> FALSE, hi |-> 0, lo |-> 0]

\* A call of getFallbackArtwork about to be made.
HsInitAt(artist, trackTitle) ==
  /\ hsArtist = artist
  /\ hsTrack = trackTitle
  /\ hsDone = FALSE
  /\ hsHash = Zero
  /\ hsImage = NoImage

HsInit == HsInitAt(<<>>, <<>>)

\* ------------------------------------------------------- specifications
\* The titles a key is built from: one letter.
Titles == {<<"a">>, <<"A">>}

\* The services as constructed, the hooks mounted at the first song.
Init == AdInit /\ ItInit /\ LzInitAt(0) /\ FsInit /\ MtInit /\ UpInit /\ SbInit /\ CfInit /\ BvInit /\ HsInit
          /\ KyInitAt(<<<<>>, <<>>>>, <<<<"a">>, <<"a">>>>)
          /\ PgInitAt(NProgSongs, 0, PgNoRange)

\* useLazyAlbumCovers mounted at any song of the list.
LzInit == /\ AdInit /\ ItInit /\ FsInit /\ MtInit /\ UpInit /\ SbInit /\ CfInit /\ BvInit /\ HsInit
          /\ KyInitAt(<<<<>>, <<>>>>, <<<<"a">>, <<"a">>>>)
          /\ PgInitAt(NProgSongs, 0, PgNoRange)
          /\ \E c \in Positions : LzInitAt(c)

\* Any two (artist, title) pairs.
KyInit == /\ AdInit /\ ItInit /\ LzInitAt(0) /\ FsInit /\ MtInit /\ UpInit /\ SbInit /\ CfInit /\ BvInit /\ HsInit
          /\ PgInitAt(NProgSongs, 0, PgNoRange)
          /\ \E artists \in StringsUpTo(MaxStrLen) \X StringsUpTo(MaxStrLen),
                titles \in Titles \X Titles : KyInitAt(artists, titles)

\* Calls of AudioDbService.
SpecAudioDb == Init /\ [][AdNext]_vars

\* Calls of iTunesAPIService.
SpecItunes == Init /\ [][ItNext]_vars

\* useLazyAlbumCovers over iTunesAPIService.
SpecLazy == LzInit /\ [][LzNext]_vars

\* useFastAlbumCovers over FastItunesService.
SpecFast == Init /\ [][FsNext]_vars

\* useFastAlbumCovers where every render is followed by its effects, every
\* timer fires and every call of the service returns.
SpecFastFair ==
  /\ Init /\ [][FsNext]_vars
  /\ WF_vars(FsEffect)
  /\ WF_vars(FsBackgroundTimer)
  /\ WF_vars(\E run \in FsRunning : \E p \in run.pending,
                o \in Failures \cup {"found"} : FsCoverReturns(run, p, o))
  /\ WF_vars(\E run \in FsRunning : FsDelayElapsed(run))

\* The cache keys the components build.
SpecKey == KyInit /\ [][KyNext]_vars

\* useProgressiveAlbumCovers over AudioDbService, mounted at the first song
\* without a visibleRange.
SpecProgressive == Init /\ [][PgNext]_vars

\* ------------------------------------------------- claims: AudioDbService
\* A call that has been answered after awaiting a request.
AdAnswered(c) == adCalls[c].pc \in {"done", "rejected"} /\ adCalls[c].req # 0

\* C2: every call that asked for a key while a request for it was pending is
\* handed the value the call that started the request is handed, the result of
\* the request; a call whose callback does not raise is handed nothing else.
C2_JoinersGetStartersResult ==
  \A c \in CallIds :
    (AdAnswered(c) /\ adCalls[c].req # c) =>
      LET s == adCalls[c].req
      IN /\ AdAnswered(s)
         /\ Head(adCalls[c].delivered) = Head(adCalls[s].delivered)
         /\ Head(adCalls[c].delivered) = adReq[s].result
         /\ ~adCalls[c].throws => adCalls[c].delivered = <<adReq[s].result>>

\* C2 happens: two calls joined a request that found a cover and all three
\* are answered.
C2_Witness ==
  \E s \in CallIds :
    /\ adReq[s].result = CoverOf(adReq[s].key)
    /\ Cardinality({c \in CallIds : AdAnswered(c) /\ adCalls[c].req = s}) = 3

\* ------------------------------------------------ claims: iTunesAPIService
\* C1: for every key at most one external lookup is outstanding.
C1_OneLookupOutstandingPerKey ==
  \A k \in SongKeys : Cardinality(ItOutstanding(k)) <= 1

\* C3: with no cache clear, one external call is made per key, whether the
\* lookup succeeds or fails; stated for calls made one after the other (no call
\* for a key while a fetch for it is outstanding).
C3_OneExternalCallPerKey ==
  \A k \in SongKeys : (itEpoch = 0 /\ k \notin itOverlap) => itFetches[k] <= 1

\* C4: a resolve for a key that has resolved since the last clear returns at
\* once, starts no external call and leaves the cache as it is.
C4_ResolvedKeyReturnsAtOnce ==
  [][\A c \in CallIds :
       (itCalls[c].pc = "idle" /\ itCalls'[c].pc # "idle"
          /\ itCalls'[c].key \in itResolved)
       => (itCalls'[c].pc = "done" /\ itFetches' = itFetches /\ itCache' = itCache)]_vars

\* C7: a cache entry, once written, keeps its value until the cache is cleared.
C7_CacheEntryImmutable ==
  [][\A k \in SongKeys :
       (itCache[k] # None /\ itEpoch' = itEpoch) => itCache'[k] = itCache[k]]_vars

\* ----------------------------------------------- claims: useLazyAlbumCovers
\* C5: a key whose lookup or image preload has failed, and for which no load is
\* in flight any more, has an artwork (the fallback) in loadedCovers.
C5_FailedKeyEndsWithArtwork ==
  \A k \in SongKeys :
    (lzEpoch = 0 /\ k \in lzErrored /\ k \notin lzQueue) => lzLoaded[k] # None

\* The distance of position i from the focus of a batch.
Dist(batch, i) == IF i >= batch.center THEN i - batch.center ELSE batch.center - i

\* The positions of the plan of a batch.
PlanIndices(batch) == 1..Len(batch.list)

\* C9: in the plan the load effect computed, the item at the focus index, when
\* it is in the plan, is the first item submitted.
C9_FocusSubmittedFirst ==
  (lzBatch.from = "effect" /\ \E j \in PlanIndices(lzBatch) : lzBatch.list[j] = lzBatch.center)
    => lzBatch.list[1] = lzBatch.center

\* C10: within the pass of the load effect, no item has been submitted while an
\* item of the plan nearer the focus is still to be submitted.
C10_NearerSubmittedBeforeFarther ==
  lzBatch.from = "effect" =>
    \A p \in PlanIndices(lzBatch), q \in PlanIndices(lzBatch) :
      (p <= lzBatch.i /\ q > lzBatch.i)
        => Dist(lzBatch, lzBatch.list[q]) >= Dist(lzBatch, lzBatch.list[p])

\* ----------------------------------------------- claims: useFastAlbumCovers
\* C6: once the lookup of a key has failed, no call of loadCover starts another
\* external lookup for it (the service cache is never cleared by the hook).
C6_NoLookupAfterFailure ==
  [][\A k \in SongKeys :
       (k \in fsFailed /\ k \notin fsQueue /\ k \in fsQueue') => fiCache[k] # None]_vars

\* ------------------------------------------------------- claims: cache keys
RECURSIVE CollapseSpaces(_)
\* A string with every run of spaces replaced by one space.
CollapseSpaces(str) ==
  IF Len(str) < 2 THEN str
  ELSE IF str[1] = " " /\ str[2] = " " THEN CollapseSpaces(Tail(str))
  ELSE <<str[1]>> \o CollapseSpaces(Tail(str))

\* A string without a leading and a trailing space.
Trim(str) ==
  LET from == IF str # <<>> /\ str[1] = " " THEN 2 ELSE 1
      to == IF Len(str) >= from /\ str[Len(str)] = " " THEN Len(str) - 1 ELSE Len(str)
  IN SubSeq(str, from, to)

\* Two strings differ only in letter case or in leading, trailing or repeated
\* internal whitespace.
SameName(s, t) ==
  Trim(CollapseSpaces(ToLowerCase(s))) = Trim(CollapseSpaces(ToLowerCase(t)))

\* C8: whatever component builds them, the keys of two (artist, title) pairs
\* that differ only in case or whitespace are the same.
C8_EquivalentInputsSameKey ==
  (kyBuilder # "none" /\ SameName(kyArtist[1], kyArtist[2])
     /\ SameName(kyTitle[1], kyTitle[2]))
    => kyKeys[1] = kyKeys[2]

\* ------------------------------------------ claims: re-planning and pending
\* A step in which loadCover of useFastAlbumCovers starts an external lookup for
\* key k: the key enters the loadingQueue and the service has no cover for it.
FsLookupStarts(k) == k \notin fsQueue /\ k \in fsQueue' /\ fiCache[k] = None

\* C12: once the focus index has changed, no step starts an external lookup for
\* a key that is cached, attempted or pending.
C12_ReplanStartsNoSecondLookup ==
  [][\A k \in SongKeys :
       (fsMoves > 0 /\ FsLookupStarts(k)) => k \notin fsAttempted]_vars

\* A load of key k by useLazyAlbumCovers is in flight: its searchTrack or its
\* image preload has not settled.
LzInFlight(k) ==
  \/ lzBatch.pc \in {"search", "preload"} /\ LzItemKey(lzBatch) = k
  \/ \E r \in LzOrphanLoads : r.key = k

\* C13: a lookup that was started and found a cover has its result stored for
\* its key once no load of the key is in flight, whatever re-planning happened.
C13_StartedLookupStoresResult ==
  \A k \in SongKeys :
    (lzEpoch = 0 /\ itCache[k] # None /\ ~LzInFlight(k)) => lzLoaded[k] # None

\* C14: a key is marked as loading (isSongLoading) only while a load of it is
\* in flight.
C14_LoadingMarkRemoved ==
  \A k \in SongKeys : k \in lzLoading => LzInFlight(k)


\* ------------------------------------------------- claims: pacing of calls
\* A lookup of the lazy hook is awaiting the network: searchTrack was called
\* for a key that the service had not cached.
LzCallOpen(batch) == batch.pc = "search" /\ ~batch.hit

\* C18: the starts of two consecutive external calls are separated by the
\* minimum delay: while the call that the hook started last is still awaiting
\* its answer and no delay has run since, no step starts a further external call.
C18_DelayBetweenCallStarts ==
  [][LzCallOpen(lzBatch) =>
       ~(LzCallOpen(lzBatch') /\ lzQueue' # lzQueue)]_vars


\* ------------------------------------------------------ claims: progress
\* loadingProgress of useProgressiveAlbumCovers, rounded down to a whole percent.
PgLoadingProgress == IF pgLen > 0 THEN (pgCount * 100) \div pgLen ELSE 0

\* C15: the reported progress percentage is within [0, 100] in every reachable
\* state, also after the songs were replaced while lookups were in flight.
C15_ProgressWithinBounds == PgLoadingProgress \in 0..100


\* loadingProgress of useFastAlbumCovers, rounded down to a whole percent.
FsLoadingProgress == (Cardinality(fsAttempted) * 100) \div NSongs

\* C16: for a fixed list of songs and no cache clear, the progress value never
\* decreases from one state to the next.
C16_ProgressNeverDecreases ==
  [][FsLoadingProgress' >= FsLoadingProgress]_vars

\* Progress has advanced twice, once by a lookup that failed, and the focus
\* has moved.
C16_Witness ==
  /\ Cardinality(fsAttempted) >= 2 /\ fsFailed # {} /\ fsMoves > 0
  /\ FsLoadingProgress >= 66


\* ------------------------------------------------ claims: concurrent calls
\* maxConcurrent of FastItunesService.loadCoversBatch, also the size of the
\* batches of the hooks.
MaxConcurrent == 3

\* The keys whose fetch AudioDbService has in flight for the progressive hook.
PgInFlight == {k \in PgIds : pgReq[k].phase = "fetch"}

\* C19: at no time are more than maxConcurrent external calls in flight.
C19_AtMostMaxConcurrentInFlight == Cardinality(PgInFlight) <= MaxConcurrent


\* ------------------------------------------------ claims: order of tiers
\* The ids of the songs of the current props that loadCovers submits in its
\* phases 1 and 2: the center song and the songs of the visible range.
PgNearIds ==
  {PgId(pgCenter)} \cup {c[1] : c \in Range(PgVisibleCalls(pgLen, pgVisible))}

\* C11: a song outside the near tiers (background fill) is submitted only after
\* every song of the near tiers has been submitted: of the submissions made
\* since the current props were given, none of a far song comes before the
\* submission of a near song.
C11_FarSubmittedAfterNear ==
  pgDirty = "none" =>
    \A o \in (1..pgLen) \ PgNearIds, w \in PgNearIds :
      pgRank[o] > pgPlanStart => (pgRank[w] # 0 /\ pgRank[w] < pgRank[o])


\* --------------------------------------------- claims: order of the fetches
\* The request that call c created has started fetchAlbumCoverFromiTunes.
AdFetchBegun(c) == adReq[c].phase \notin {"none", "delay"}

\* C20: an item submitted earlier begins its network call no later than an item
\* submitted later, whatever priority each submission carries: no request has
\* begun its fetch while a request created before it still sits in its delay.
C20_EarlierSubmittedBeginsFirst ==
  \A c \in CallIds, d \in CallIds :
    (c < d /\ AdFetchBegun(d)) => adReq[c].phase # "delay"


\* --------------------------------------------------- claims: completion
\* C17: with a fixed list and a fixed centerIndex, when every call of the
\* service returns, every song is eventually attempted and progress reaches
\* 100 (attemptedLoads.size = songs.length), also when lookups fail.
C17_EverySongEventuallyAttempted ==
  <>(\/ fsMoves > 0
     \/ fsAttempted = SongKeys /\ Cardinality(fsAttempted) = NSongs)


\* ------------------------------------------------- claims: order of a plan
\* The distance of two indices.
IndexDistance(i, j) == IF i >= j THEN i - j ELSE j - i

\* C29: in the plan of a loadSequence (songsToLoad, whose first song is the
\* center), of two songs at the same distance from the center the one with the
\* larger index comes first.
C29_TieLargerIndexFirst ==
  \A run \in FsRunning :
    run.size = 1 =>
      \A i \in 1..Len(run.list), j \in 1..Len(run.list) :
        (i < j /\ IndexDistance(run.list[i], run.list[1])
                    = IndexDistance(run.list[j], run.list[1]))
          => run.list[i] > run.list[j]


\* --------------------------------------------- claims: delay after a skip
\* C21: the delay between items is waited only after a submission that started
\* an external call: a batch enters its 200 ms delay only from the load of an
\* item whose searchTrack went to the network, never after an item that was
\* skipped (loaded, loading or queued) or answered from the cache.
C21_DelayOnlyAfterExternalCall ==
  [][(lzBatch'.pc = "delay" /\ lzBatch' # lzBatch)
       => (lzBatch.pc \in {"search", "preload"} /\ ~lzBatch.hit)]_vars


\* ------------------------------------------- claims: clear during a lookup
\* In this step searchTrack of the aborted load r comes back with a cover it
\* fetched.
LzOrphanFound(r) ==
  /\ r.pc = "search" /\ ~r.hit
  /\ lzOrphans' = lzOrphans (-) SetToBag({r})
  /\ itCache[r.key] = None /\ itCache'[r.key] # None

\* C28: a lookup that was in flight for a waiting load when clearCache ran
\* still hands its result to that load: when its searchTrack comes back with a
\* cover, the load stores the cover or goes on to preload and store it.
C28_ClearKeepsResultForWaiters ==
  [][\A r \in LzOrphanLoads :
       (r.cleared /\ LzOrphanFound(r))
         => (lzLoaded'[r.key] # None \/ LzInFlight(r.key)')]_vars


\* ------------------------------------------ claims: order of notification
\* Call c of loadAlbumCoverProgressive joined a request and its callback is
\* called in this step.
AdJoinerNotified(c) ==
  /\ adCalls[c].kind = "prog" /\ adCalls[c].pc = "joined"
  /\ adCalls'[c].pc # "joined"

MaxResults == 2

\* The artist names and track titles of requests and candidates.  They hold
\* letters only: no punctuation, and none of the words ft, feat, featuring,
\* with, x or & that AudioDbService.cleanSearchTerm cuts a term at.
MtNames == {<<"a">>, <<"A">>, <<"b">>, <<"a", "b">>}

\* Artwork URLs, as the pieces the services look at: the current form
\* .../100x100bb.jpg, the older form ....100x100-75.jpg, and a URL without a size.
UrlSized == <<"p/", "100x100", "bb", ".jpg">>
UrlLegacy == <<"p/", "100x100", "-75", ".jpg">>
UrlPlain == <<"p/", "art", ".jpg">>
MtUrls == {NoUrl, UrlSized, UrlLegacy, UrlPlain}

\* iTunesTrack: the fields of a candidate the services read.
MtCandidates == [artistName : MtNames, trackName : MtNames, artworkUrl100 : MtUrls]
MtResultLists == UNION {[1..n -> MtCandidates] : n \in 0..MaxResults}

\* ------------------------------------------------ matching: string methods
\* String.prototype.includes
Includes(str, part) ==
  \E i \in 0..(Len(str) - Len(part)) : SubSeq(str, i + 1, i + Len(part)) = part

\* String.prototype.replace with a string pattern: the first occurrence only.
StringReplace(str, pattern, replacement) ==
  IF ~Includes(str, pattern) THEN str
  ELSE LET at == CHOOSE i \in 0..(Len(str) - Len(pattern)) :
                   /\ SubSeq(str, i + 1, i + Len(pattern)) = pattern
                   /\ \A j \in 0..(i - 1) :
                        SubSeq(str, j + 1, j + Len(pattern)) # pattern
       IN SubSeq(str, 1, at) \o replacement
            \o SubSeq(str, at + Len(pattern) + 1, Len(str))

\* artworkUrl100.replace('100x100bb', '600x600bb'), the same in the three services
HighQualityArtwork(url) ==
  StringReplace(url, <<"100x100", "bb">>, <<"600x600", "bb">>)

RECURSIVE Split(_)
\* str.split(' ')
Split(str) ==
  IF \A j \in 1..Len(str) : str[j] # " " THEN <<str>>
  ELSE LET at == CHOOSE j \in 1..Len(str) :
                   str[j] = " " /\ \A i \in 1..(j - 1) : str[i] # " "
       IN <<SubSeq(str, 1, at - 1)>> \o Split(SubSeq(str, at + 1, Len(str)))

\* ------------------------------------------------ matching: iTunesAPIService
\* cleanSearchTerm: lower case, runs of whitespace to one space, trimmed (the
\* names hold no character the punctuation pattern removes).
ItCleanSearchTerm(term) == Trim(CollapseSpaces(ToLowerCase(term)))

\* The score findBestMatch gives a candidate.
ItScore(result, artist, track) ==
  LET resultArtist == ItCleanSearchTerm(result.artistName)
      resultTrack == ItCleanSearchTerm(result.trackName)
  IN (IF Includes(resultArtist, artist) \/ Includes(artist, resultArtist)
        THEN 10 ELSE 0)
     + (IF resultArtist = artist THEN 20 ELSE 0)
     + (IF Includes(resultTrack, track) \/ Includes(track, resultTrack)
          THEN 8 ELSE 0)
     + (IF resultTrack = track THEN 15 ELSE 0)
     + (IF result.artworkUrl100 # NoUrl THEN 5 ELSE 0)

ItScores(results, artist, track) ==
  [i \in 1..Len(results) |-> ItScore(results[i], artist, track)]

\* scoredResults[0] after the sort by descending score: the sort is stable, so
\* it is the first candidate with the highest score.  0 for an empty list.
ItTopIndex(scores) ==
  IF scores = <<>> THEN 0
  ELSE CHOOSE i \in 1..Len(scores) :
         /\ \A j \in 1..Len(scores) : scores[j] <= scores[i]
         /\ \A j \in 1..(i - 1) : scores[j] < scores[i]

\* findBestMatch: the index of the candidate it returns, 0 for null.
ItFindBestMatch(results, artist, track) ==
  LET scores == ItScores(results, artist, track)
      best == ItTopIndex(scores)
  IN IF best # 0 /\ scores[best] > 5 THEN best ELSE 0

\* What searchTrack returns for a response.
ItSearchTrackResult(results, artist, track) ==
  LET bestMatch == ItFindBestMatch(results, ItCleanSearchTerm(artist),
                                   ItCleanSearchTerm(track))
  IN IF bestMatch # 0 /\ results[bestMatch].artworkUrl100 # NoUrl
       THEN [found |-> TRUE, url |-> HighQualityArtwork(results[bestMatch].artworkUrl100)]
       ELSE Null

\* String.prototype.charCodeAt
CharCode(ch) ==
  CASE ch = "a" -> 97
    [] ch = "A" -> 65
    [] ch = "b" -> 98
    [] ch = " " -> 32

Two16 == 2 ^ 16

\* One round of the loop of simpleHash on the 32 bits of hash, held as two
\* halves of 16 bits: hash = ((hash << 5) - hash) + char; hash = hash & hash.
HashStep(hash, char) ==
  LET lo == hash.lo * 32 - hash.lo + char
      hi == hash.hi * 32 - hash.hi + (lo \div Two16)
  IN [hi |-> hi % Two16, lo |-> lo % Two16]

RECURSIVE HashFrom(_, _)
\* The loop of simpleHash over the characters of str.
HashFrom(hash, str) ==
  IF str = <<>> THEN hash
  ELSE HashFrom(HashStep(hash, CharCode(Head(str))), Tail(str))

\* The signed 32-bit integer that 32 bits stand for (two's complement).
ToInt32(bits) ==
  IF bits.hi >= Two16 \div 2
    THEN [neg |-> TRUE,
          hi |-> Two16 - bits.hi - (IF bits.lo = 0 THEN 0 ELSE 1),
          lo |-> (Two16 - bits.lo) % Two16]
    ELSE [neg |-> FALSE, hi |-> bits.hi, lo |-> bits.lo]

\* The number returned as it is.
MathIdentity(number) == number

\* Math.abs
MathAbs(number) == [number EXCEPT !.neg = FALSE]

\* The operator % of the language: the remainder has the sign of the dividend.
Remainder(number, m) ==
  LET r == ((number.hi % m) * (Two16 % m) + (number.lo % m)) % m
  IN IF number.neg THEN 0 - r ELSE r

\* simpleHash
SimpleHash(str) ==
  MathAbs(ToInt32(HashFrom([hi |-> 0, lo |-> 0], str)))

\* truncate
Truncate(text, maxLength) ==
  IF Len(text) > maxLength THEN SubSeq(text, 1, maxLength - 3) \o <<"...">>
  ELSE text

\* getFallbackArtwork: the parts of the generated image that depend on the
\* arguments.
GetFallbackArtwork(artist, trackTitle) ==
  LET hash == SimpleHash(artist \o trackTitle)
  IN [hue |-> Remainder(hash, 360),
      saturation |-> 30 + Remainder(hash, 40),
      lightness |-> 20 + Remainder(hash, 30),
      artist |-> Truncate(artist, 20),
      title |-> Truncate(trackTitle, 25)]

\* ----------------------------------------------- matching: FastItunesService
\* data.results.find(t => t.artworkUrl100): the index of the first candidate
\* with artwork, 0 when there is none.
FirstWithArtwork(results) ==
  IF \A i \in 1..Len(results) : results[i].artworkUrl100 = NoUrl THEN 0
  ELSE CHOOSE i \in 1..Len(results) :
         /\ results[i].artworkUrl100 # NoUrl
         /\ \A j \in 1..(i - 1) : results[j].artworkUrl100 = NoUrl

\* ------------------------------------------------- matching: AudioDbService
\* cleanSearchTerm on the names of the model: lower case, one space between
\* words, trimmed.
AdCleanSearchTerm(term) == Trim(CollapseSpaces(ToLowerCase(term)))

\* isArtistMatch
IsArtistMatch(searchArtist, resultArtist) ==
  IF searchArtist = <<>> \/ resultArtist = <<>> THEN FALSE
  ELSE IF searchArtist = resultArtist THEN TRUE
  ELSE LET searchWords == SelectSeq(Split(searchArtist), LAMBDA w : Len(w) > 2)
           resultWords == SelectSeq(Split(resultArtist), LAMBDA w : Len(w) > 2)
       IN \E i \in 1..Len(searchWords) : \E j \in 1..Len(resultWords) :
            \/ Includes(resultWords[j], searchWords[i])
            \/ Includes(searchWords[i], resultWords[j])

RECURSIVE LevenshteinDistance(_, _)
\* levenshteinDistance
LevenshteinDistance(str1, str2) ==
  IF str1 = <<>> THEN Len(str2)
  ELSE IF str2 = <<>> THEN Len(str1)
  ELSE Min(Min(LevenshteinDistance(Tail(str1), str2) + 1,
               LevenshteinDistance(str1, Tail(str2)) + 1),
           LevenshteinDistance(Tail(str1), Tail(str2))
             + (IF Head(str1) = Head(str2) THEN 0 ELSE 1))

\* calculateSimilarity(str1, str2) > 0.6, in tenths
SimilarityAbove6(str1, str2) ==
  IF str1 = <<>> \/ str2 = <<>> THEN FALSE
  ELSE LET longer == IF Len(str1) > Len(str2) THEN str1 ELSE str2
           shorter == IF Len(str1) <= Len(str2) THEN str1 ELSE str2
       IN 10 * (Len(longer) - LevenshteinDistance(longer, shorter)) > 6 * Len(longer)

\* The test of the first loop of AudioDbService.findBestMatch.
AdArtistAndTitleMatch(result, songTitle, artistName) ==
  LET cleanSongTitle == ToLowerCase(AdCleanSearchTerm(songTitle))
      cleanArtistName == ToLowerCase(AdCleanSearchTerm(artistName))
      resultArtist == ToLowerCase(result.artistName)
      resultTrack == ToLowerCase(result.trackName)
  IN /\ IsArtistMatch(cleanArtistName, resultArtist)
     /\ songTitle # <<>>
     /\ \/ SimilarityAbove6(cleanSongTitle, resultTrack)
        \/ Includes(resultTrack, cleanSongTitle)
        \/ Includes(cleanSongTitle, resultTrack)

\* The first index of a list that satisfies a test, 0 when none does.
FirstIndex(n, Test(_)) ==
  IF \A i \in 1..n : ~Test(i) THEN 0
  ELSE CHOOSE i \in 1..n : Test(i) /\ \A j \in 1..(i - 1) : ~Test(j)

\* AudioDbService.findBestMatch: the index of the candidate it returns, 0 for null.
AdFindBestMatch(results, songTitle, artistName) ==
  LET both == FirstIndex(Len(results),
                LAMBDA i : AdArtistAndTitleMatch(results[i], songTitle, artistName))
      byArtist == FirstIndex(Len(results),
                LAMBDA i : IsArtistMatch(ToLowerCase(AdCleanSearchTerm(artistName)),
                                         ToLowerCase(results[i].artistName)))
      withArtwork == FirstWithArtwork(results)
  IN IF results = <<>> THEN 0
     ELSE IF both # 0 THEN both
     ELSE IF byArtist # 0 THEN byArtist
     ELSE IF withArtwork # 0 THEN withArtwork
     ELSE 1

\* ---------------------------------------------------- matching: the calls
\* No search has been made and no image generated on its own.
MtIdle == mtService = "none" /\ mtImages = <<>>

\* A search has returned: what was asked, what came back, what was selected.
MtReturned(service, artist, track, results, scores, chosen, cover, entry) ==
  /\ mtService' = service
  /\ mtArtist' = artist
  /\ mtTrack' = track
  /\ mtResults' = results
  /\ mtScores' = scores
  /\ mtChosen' = chosen
  /\ mtCover' = cover
  /\ mtEntry' = entry
  /\ UNCHANGED mtImages
  /\ MtFrame

\* iTunesAPIService.searchTrack(artist, track) with a response of results.
MtSearchTrack ==
  /\ MtIdle
  /\ \E artist \in MtNames, track \in MtNames :
       \E results \in MtResultLists :
         MtReturned("iTunesAPIService", artist, track, results,
           ItScores(results, ItCleanSearchTerm(artist), ItCleanSearchTerm(track)),
           ItFindBestMatch(results, ItCleanSearchTerm(artist), ItCleanSearchTerm(track)),
           ItSearchTrackResult(results, artist, track), NoEntry)

\* FastItunesService.getAlbumCover(artist, track) with a response of results.
MtFastGetAlbumCover ==
  /\ MtIdle
  /\ \E artist \in MtNames, track \in MtNames :
       \E results \in MtResultLists :
         LET found == FirstWithArtwork(results)
         IN MtReturned("FastItunesService", artist, track, results, <<>>, found,
              IF found # 0
                THEN [found |-> TRUE,
                      url |-> HighQualityArtwork(results[found].artworkUrl100)]
                ELSE Null,
              NoEntry)

\* AudioDbService.searchiTunes(songTitle, artistName, 'song') with a response
\* of results.
MtSearchiTunes ==
  /\ MtIdle
  /\ \E songTitle \in MtNames, artistName \in MtNames :
       \E results \in MtResultLists :
         LET bestMatch == AdFindBestMatch(results, songTitle, artistName)
         IN MtReturned("AudioDbService", artistName, songTitle, results, <<>>,
              bestMatch,
              IF bestMatch # 0 /\ results[bestMatch].artworkUrl100 # NoUrl
                THEN [found |-> TRUE,
                      url |-> HighQualityArtwork(results[bestMatch].artworkUrl100)]
                ELSE Null,
              NoEntry)

\* A cover that ignores a search that came back with null.
LzCoverOnly(cover, artist, title) ==
  [kind |-> "cover", url |-> cover.url, image |-> NoImage]
\* What loadAlbumCover of useLazyAlbumCovers goes on with after searchTrack:
\* the cover, or the generated image when the search returned null.
LzCoverOrFallback(cover, artist, title) ==
  IF ~cover.found
    THEN [kind |-> "fallback", url |-> NoUrl, image |-> GetFallbackArtwork(artist, title)]
    ELSE [kind |-> "cover", url |-> cover.url, image |-> NoImage]

\* loadAlbumCover of useLazyAlbumCovers for a song, the search answered with
\* results; the image of a cover loads, or fails to load and the catch block
\* stores the generated image.
MtLoadAlbumCover ==
  /\ MtIdle
  /\ \E artist \in MtNames, title \in MtNames :
       \E results \in MtResultLists, loads \in BOOLEAN :
         LET cover == ItSearchTrackResult(results, artist, title)
             albumCover == LzCoverOrFallback(cover, artist, title)
         IN MtReturned("useLazyAlbumCovers", artist, title, results,
              ItScores(results, ItCleanSearchTerm(artist), ItCleanSearchTerm(title)),
              ItFindBestMatch(results, ItCleanSearchTerm(artist), ItCleanSearchTerm(title)),
              cover,
              IF albumCover.kind = "cover" /\ ~loads
                THEN [kind |-> "fallback", url |-> NoUrl,
                      image |-> GetFallbackArtwork(artist, title)]
                ELSE albumCover)

\* The most calls of getFallbackArtwork made on their own.
MaxImages == 2

\* A call of getFallbackArtwork.
MtGetFallbackArtwork ==
  /\ mtService = "none" /\ Len(mtImages) < MaxImages
  /\ \E artist \in MtNames, trackTitle \in MtNames :
       mtImages' = Append(mtImages, [artist |-> artist, title |-> trackTitle,
                                     image |-> GetFallbackArtwork(artist, trackTitle)])
  /\ UNCHANGED <<mtService, mtArtist, mtTrack, mtResults, mtScores, mtChosen,
                 mtCover, mtEntry>>
  /\ MtFrame

MtNext ==
  \/ MtLoadAlbumCover
  \/ MtSearchTrack
  \/ MtFastGetAlbumCover
  \/ MtSearchiTunes
  \/ MtGetFallbackArtwork

\* The searches of the three services, the fallback of useLazyAlbumCovers and
\* calls of getFallbackArtwork, for any request and any response.
SpecMatch == Init /\ [][MtNext]_vars


\* ------------------------------------------------------- claims: matching
\* The candidate's artist, normalized, contains or is contained by the
\* requested one.
ArtistMatches(result, artist) ==
  \/ Includes(ItCleanSearchTerm(result.artistName), ItCleanSearchTerm(artist))
  \/ Includes(ItCleanSearchTerm(artist), ItCleanSearchTerm(result.artistName))

\* The candidate's track, normalized, contains or is contained by the requested
\* one.
TrackMatches(result, track) ==
  \/ Includes(ItCleanSearchTerm(result.trackName), ItCleanSearchTerm(track))
  \/ Includes(ItCleanSearchTerm(track), ItCleanSearchTerm(result.trackName))

\* The score of a candidate as the specification gives it: the bonus for a
\* substring match is not added when the bonus for an exact match applies.
StatedScore(result, artist, track) ==
  (IF ItCleanSearchTerm(result.artistName) = ItCleanSearchTerm(artist) THEN 20
   ELSE IF ArtistMatches(result, artist) THEN 10 ELSE 0)
  + (IF ItCleanSearchTerm(result.trackName) = ItCleanSearchTerm(track) THEN 15
     ELSE IF TrackMatches(result, track) THEN 8 ELSE 0)
  + (IF result.artworkUrl100 # NoUrl THEN 5 ELSE 0)

\* findBestMatch of iTunesAPIService has scored the candidates of a response.
ItScored == mtService \in {"iTunesAPIService", "useLazyAlbumCovers"}

\* The candidate findBestMatch returns is one the stated score ranks highest.
RankingAsStated ==
  mtChosen # 0 =>
    \A i \in 1..Len(mtResults) :
      StatedScore(mtResults[i], mtArtist, mtTrack)
        <= StatedScore(mtResults[mtChosen], mtArtist, mtTrack)

\* C22: findBestMatch gives every candidate the stated score (+20 for the exact
\* artist, otherwise +10 for a substring; +15 for the exact track, otherwise +8;
\* +5 for artwork), and the candidate it returns is one the stated score ranks
\* highest.
C22_ScoreAndRankingAsStated ==
  ItScored =>
    /\ \A i \in 1..Len(mtResults) :
         mtScores[i] = StatedScore(mtResults[i], mtArtist, mtTrack)
    /\ RankingAsStated


\* A candidate whose only bonus is its artwork: neither its artist nor its
\* track matches the request.
ArtworkOnly(result) ==
  /\ result.artworkUrl100 # NoUrl
  /\ ~ArtistMatches(result, mtArtist)
  /\ ~TrackMatches(result, mtTrack)

\* C23: no search selects a candidate whose only bonus is having artwork,
\* whatever the response.
C23_ArtworkOnlyNeverSelected ==
  (mtService # "none" /\ mtChosen # 0) => ~ArtworkOnly(mtResults[mtChosen])


\* findBestMatch of iTunesAPIService or of AudioDbService has chosen among the
\* candidates of a response.
BestMatchCalled ==
  mtService \in {"iTunesAPIService", "useLazyAlbumCovers", "AudioDbService"}

\* C24: of a candidate that matches the requested track but not the artist and
\* a candidate that matches the requested artist but not the track, bestMatch
\* selects the one with the matching artist, for exact and for substring
\* matches (a matching artist always clears the floor).
C24_MatchingArtistOutranksTrack ==
  BestMatchCalled =>
    \A i \in 1..Len(mtResults), j \in 1..Len(mtResults) :
      (/\ ArtistMatches(mtResults[i], mtArtist) /\ ~TrackMatches(mtResults[i], mtTrack)
       /\ TrackMatches(mtResults[j], mtTrack) /\ ~ArtistMatches(mtResults[j], mtArtist)
       /\ ItScore(mtResults[i], ItCleanSearchTerm(mtArtist), ItCleanSearchTerm(mtTrack)) > 5)
        => mtChosen = i


\* useLazyAlbumCovers has loaded a song and the response held no candidate.
NoCandidates == mtService = "useLazyAlbumCovers" /\ mtResults = <<>>

\* useLazyAlbumCovers has loaded a song and the candidate that scored best
\* carries no artwork.
BestWithoutArtwork ==
  /\ mtService = "useLazyAlbumCovers" /\ mtResults # <<>>
  /\ mtResults[ItTopIndex(mtScores)].artworkUrl100 = NoUrl

CanonicalKey(artist, track) ==
  <<Trim(CollapseSpaces(ToLowerCase(artist))), Trim(CollapseSpaces(ToLowerCase(track)))>>

\* C26: two calls of getFallbackArtwork whose (artist, track) arguments have
\* the same canonical key return the same image: the same hue, saturation,
\* lightness and text.
C26_SameKeySameImage ==
  \A i \in 1..Len(mtImages), j \in 1..Len(mtImages) :
    CanonicalKey(mtImages[i].artist, mtImages[i].title)
        = CanonicalKey(mtImages[j].artist, mtImages[j].title)
      => mtImages[i].image = mtImages[j].image


RECURSIVE ReplaceEvery(_, _, _)
\* A string with every occurrence of a pattern replaced.
ReplaceEvery(str, pattern, replacement) ==
  IF ~Includes(str, pattern) THEN str
  ELSE IF SubSeq(str, 1, Len(pattern)) = pattern
    THEN replacement \o ReplaceEvery(SubSeq(str, Len(pattern) + 1, Len(str)),
                                     pattern, replacement)
  ELSE <<Head(str)>> \o ReplaceEvery(Tail(str), pattern, replacement)

\* A service has returned the artwork of the candidate it selected.
CoverReturned ==
  /\ mtService \in {"iTunesAPIService", "FastItunesService", "AudioDbService"}
  /\ mtCover.found

\* C27: the URL a service returns is the selected candidate's artwork URL with
\* 100x100 replaced by 600x600 when the URL contains 100x100, and the URL
\* unchanged otherwise; the URL of a current-form artwork ends in 600x600bb.jpg.
C27_SizeSubstringUpgraded ==
  CoverReturned =>
    /\ mtCover.url = ReplaceEvery(mtResults[mtChosen].artworkUrl100,
                                  <<"100x100">>, <<"600x600">>)
    /\ mtResults[mtChosen].artworkUrl100 = UrlSized
         => SubSeq(mtCover.url, Len(mtCover.url) - 2, Len(mtCover.url))
              = <<"600x600", "bb", ".jpg">>


\* ------------------------------------------- claims: completion callbacks
\* Call c of loadAlbumCoverProgressive has returned or rejected.
AdProgressiveEnded(c) ==
  adCalls[c].kind = "prog" /\ adCalls[c].pc \in {"done", "rejected"}

\* C31: a call of loadAlbumCoverProgressive that has ended has called its
\* callback exactly once, also when the callback raises, and the cache holds
\* for its key what the request it started resolved with.
C31_CallbackOnceCacheKept ==
  \A c \in CallIds :
    AdProgressiveEnded(c) =>
      /\ Len(adCalls[c].delivered) = 1
      /\ adCalls[c].req = c => adCache[adCalls[c].key] = adReq[c].result


\* ----------------------------------------------- cache keys: the separator
\* The longest name that may hold the separator.
MaxSepLen == 2

\* Names made of a letter and of '-', the character the keys put between
\* artist and title.
SepNames == UNION {[1..m -> {"a", "-"}] : m \in 1..MaxSepLen}

\* Any two (artist, title) pairs of such names.
KySepInit == /\ AdInit /\ ItInit /\ LzInitAt(0) /\ FsInit /\ MtInit /\ UpInit /\ SbInit /\ CfInit /\ BvInit /\ HsInit
             /\ PgInitAt(NProgSongs, 0, PgNoRange)
             /\ \E artists \in SepNames \X SepNames, titles \in SepNames \X SepNames :
                  KyInitAt(artists, titles)

\* The cache keys the components build from names that may hold a '-'.
SpecKeySep == KySepInit /\ [][KyNext]_vars

\* C32: whatever component builds them, the keys of two (artist, title) pairs
\* that differ in their canonical artist or in their canonical title differ,
\* also when a name holds the separator '-'.
C32_KeyInjectiveOnCanonicalPairs ==
  (kyBuilder # "none"
     /\ CanonicalKey(kyArtist[1], kyTitle[1]) # CanonicalKey(kyArtist[2], kyTitle[2]))
    => kyKeys[1] # kyKeys[2]


\* ----------------------------------------------------- AlbumCoverUpdater
\* ALBUMS_DATABASE.length: the songs updateAllCovers goes through.
DbSize == 2
\* The longest list given to updateSpecificCovers.
MaxAlbums == 2

\* onProgress: not given, a function that returns, or one that throws.
UpCallbacks == {"none", "ok", "throws"}

\* What searchTrack and the choice of the cover come to for one song: a cover,
\* null (the fallback is used), or getFallbackArtwork throwing in the try and
\* in the catch block (btoa rejects a character outside Latin-1).
UpSearchOutcomes == {"found", "null", "throws"}

\* The next unused call.
UpFresh(c) == /\ upCalls[c].pc = "idle"
              /\ \A d \in CallIds : d < c => upCalls[d].pc # "idle"

\* An update that resets the flag only when it returns.
UpFlagOnReturn(threw) == threw
\* finally { this.updateInProgress = false }: the flag after an update has
\* ended, by return or by exception.
UpFlagAfterEnd(threw) == FALSE

\* The update of call c ends, by return or by exception: the finally block.
UpEnd(c, call, threw) ==
  /\ upCalls' = [upCalls EXCEPT ![c] =
       [call EXCEPT !.pc = IF threw THEN "threw" ELSE "returned"]]
  /\ upInProgress' = UpFlagAfterEnd(threw)
  /\ upCallback' = "none"

\* this.progressCallback?.(progress) at the head of the loop body, then the
\* await of searchTrack; callback is the value of this.progressCallback.
UpReportAndSearch(c, call, callback) ==
  IF callback = "throws"
    THEN UpEnd(c, call, TRUE)
    ELSE /\ upCalls' = [upCalls EXCEPT ![c] = [call EXCEPT !.pc = "search"]]
         /\ upInProgress' = TRUE
         /\ upCallback' = callback

\* updateAllCovers(onProgress) or updateSpecificCovers(albums, onProgress), up
\* to the first await: total is the length of the list.
UpStart(c, kind, total, onProgress) ==
  /\ UpFresh(c)
  /\ UpFrame
  /\ IF upInProgress
       THEN \* throw new Error('Album cover update already in progress')
            /\ upCalls' = [upCalls EXCEPT ![c] =
                 [UpIdleCall EXCEPT !.kind = kind, !.pc = "busy", !.total = total]]
            /\ UNCHANGED <<upInProgress, upCallback>>
       ELSE LET call == [UpIdleCall EXCEPT !.kind = kind, !.total = total]
            IN IF total = 0
                 THEN UpEnd(c, call, FALSE)
                 ELSE UpReportAndSearch(c, call, onProgress)

UpUpdateAllCovers(c, onProgress) == UpStart(c, "all", DbSize, onProgress)

UpUpdateSpecificCovers(c, total, onProgress) ==
  UpStart(c, "specific", total, onProgress)

\* searchTrack returns for the song at index i of call c.
UpSearchReturns(c, outcome) ==
  /\ upCalls[c].pc = "search"
  /\ UpFrame
  /\ LET call == upCalls[c]
         stored == [call EXCEPT !.completed = @ + 1,
                                !.failed = IF outcome = "null" THEN @ + 1 ELSE @]
     IN IF outcome = "throws" THEN UpEnd(c, call, TRUE)
        ELSE IF call.i < call.total - 1
          THEN /\ upCalls' = [upCalls EXCEPT ![c] = [stored EXCEPT !.pc = "delay"]]
               /\ UNCHANGED <<upInProgress, upCallback>>
        ELSE \* the loop is over; updateAllCovers reports the final progress
             UpEnd(c, stored, call.kind = "all" /\ upCallback = "throws")

\* The delay between two requests of call c elapses: the next song.
UpDelayElapsed(c) ==
  /\ upCalls[c].pc = "delay"
  /\ UpFrame
  /\ UpReportAndSearch(c, [upCalls[c] EXCEPT !.i = @ + 1], upCallback)

UpNext ==
  \/ \E c \in CallIds, cb \in UpCallbacks : UpUpdateAllCovers(c, cb)
  \/ \E c \in CallIds, n \in 0..MaxAlbums, cb \in UpCallbacks :
       UpUpdateSpecificCovers(c, n, cb)
  \/ \E c \in CallIds, o \in UpSearchOutcomes : UpSearchReturns(c, o)
  \/ \E c \in CallIds : UpDelayElapsed(c)

\* Calls of AlbumCoverUpdater.
SpecUpdater == Init /\ [][UpNext]_vars


\* ------------------------------------------- claims: AlbumCoverUpdater
\* The calls whose update is running: awaiting a search or a delay.
UpRunning == {c \in CallIds : upCalls[c].pc \in {"search", "delay"}}

\* Call c is made in this step.
UpCalled(c) == upCalls[c].pc = "idle" /\ upCalls'[c].pc # "idle"

\* C33: at most one update runs at a time and the in-progress flag is false
\* when none runs, also after an update ended by exception; a call made while
\* an update runs fails as already in progress and leaves the flag, the
\* progress callback and the running update as they are.
C33_OneUpdateAtATime ==
  /\ [](/\ Cardinality(UpRunning) <= 1
        /\ upInProgress <=> UpRunning # {}
        /\ UpRunning = {} => upCallback = "none")
  /\ [][\A c \in CallIds :
          (UpCalled(c) /\ UpRunning # {})
            => /\ upCalls'[c].pc = "busy"
               /\ UNCHANGED <<upInProgress, upCallback>>
               /\ \A d \in UpRunning : upCalls'[d] = upCalls[d]]_vars

\* A call was refused while an update was running, that update ended by
\* exception, and a later update ran to its end; no update is in progress.
C33_Witness ==
  /\ ~upInProgress
  /\ \E c \in CallIds, d \in CallIds, e \in CallIds :
       /\ c < d /\ d < e
       /\ upCalls[c].pc = "threw" /\ upCalls[c].completed > 0
       /\ upCalls[d].pc = "busy"
       /\ upCalls[e].pc = "returned" /\ upCalls[e].completed = upCalls[e].total
       /\ upCalls[e].total > 1


\* ------------------------------------------------------------- SearchBar
\* The most calls of onSearch.
MaxSearches == 4

\* What the input field can hold: nothing, a space, a word, a longer word.
SbTexts == {<<>>, <<" ">>, <<"a">>, <<"a", "b">>}

\* value.trim() is the empty string.
SbBlank(value) == \A j \in 1..Len(value) : value[j] = " "

\* onSearch(text)
SbOnSearch(text) ==
  /\ sbLast' = [called |-> TRUE, query |-> text]
  /\ sbSearches' = sbSearches + 1

\* handleInputChange: the field now holds value; the pending timer is cleared
\* and a new one armed with value.
SbHandleInputChange(value) ==
  /\ value # sbQuery
  /\ sbQuery' = value
  /\ sbTimeout' = [armed |-> TRUE, value |-> value]
  /\ UNCHANGED <<sbLast, sbSearches>>
  /\ SbFrame

\* The debounce timer fires: onSearch(value) unless value is blank.
SbTimeoutFires ==
  /\ sbTimeout.armed /\ sbSearches < MaxSearches
  /\ sbTimeout' = SbNoTimeout
  /\ IF ~SbBlank(sbTimeout.value)
       THEN SbOnSearch(sbTimeout.value)
       ELSE UNCHANGED <<sbLast, sbSearches>>
  /\ UNCHANGED sbQuery
  /\ SbFrame

\* handleSubmit: onSearch(query).
SbHandleSubmit ==
  /\ sbSearches < MaxSearches
  /\ SbOnSearch(sbQuery)
  /\ UNCHANGED <<sbQuery, sbTimeout>>
  /\ SbFrame

\* clearSearch, from the button shown while query is not empty.
SbClearSearch ==
  /\ sbQuery # <<>> /\ sbSearches < MaxSearches
  /\ sbQuery' = <<>>
  /\ SbOnSearch(<<>>)
  /\ UNCHANGED sbTimeout
  /\ SbFrame

SbNext ==
  \/ \E value \in SbTexts : SbHandleInputChange(value)
  \/ SbTimeoutFires
  \/ SbHandleSubmit
  \/ SbClearSearch

\* The search bar: keystrokes, the debounce timer, submit and clear.
SpecSearchBar == Init /\ [][SbNext]_vars

\* ------------------------------------------------------ claims: SearchBar
\* C34: when the debounce timer calls onSearch, it passes the text the field
\* holds: no timer armed by a keystroke before clearSearch or a submit calls
\* onSearch with a text the user has since replaced.
C34_TimerSearchesCurrentText ==
  [][(sbTimeout.armed /\ ~sbTimeout'.armed /\ sbSearches' # sbSearches)
       => sbLast'.query = sbQuery]_vars


\* ------------------------------------------------------ App and CoverFlow
\* The most calls of fetchSongs.
MaxFetches == 3
\* The most covers one drag jumps over.
MaxJump == 2

\* What loadSongs can return: the trending songs or the result of a search,
\* never an empty list (searchSongs falls back to a random selection).
CfLists == {CfTrending, <<1>>, <<2, 3>>}

\* songs.findIndex(s => s.id === id): -1 when no song has the id.
FindIndex(songs, id) ==
  IF \E j \in 1..Len(songs) : songs[j] = id
    THEN (CHOOSE j \in 1..Len(songs) : songs[j] = id) - 1
    ELSE 0 - 1

\* songs[index]: 0 for undefined.
SongAt(songs, index) ==
  IF index >= 0 /\ index < Len(songs) THEN songs[index + 1] ELSE 0

\* Math.floor(songs.length / 2)
MiddleIndex(songs) == Len(songs) \div 2

\* The effect of App that selects the middle song when none is selected.
CfSelectedAfterEffect(songs, selected) ==
  IF Len(songs) > 0 /\ selected = 0 THEN SongAt(songs, MiddleIndex(songs))
  ELSE selected

\* The effect of CoverFlow on [selectedSong, songs]: the index of the selected
\* song when it is in the list, the index as it was otherwise.
CfIndexAfterEffect(songs, selected, index) ==
  IF selected # 0 /\ FindIndex(songs, selected) # 0 - 1
    THEN FindIndex(songs, selected)
    ELSE index

\* What is rendered in place of the loading screen: CoverFlow.
CfShown(loading, songs) == ~loading /\ Len(songs) > 0

\* fetchSongs(query), up to the await of loadSongs: the loading screen
\* replaces CoverFlow.
CfFetchSongs(list) ==
  /\ cfFetches < MaxFetches
  /\ cfFetches' = cfFetches + 1
  /\ cfLoading' = TRUE
  /\ cfPending' = Append(cfPending, list)
  /\ cfMounted' = FALSE
  /\ cfDragging' = FALSE
  /\ UNCHANGED <<cfSongs, cfSelected, cfAppIndex, cfIndex, cfUndefined>>
  /\ CfFrame

\* The oldest loadSongs returns: setSongs, setCurrentIndex, setLoading(false),
\* the render and its effects.  CoverFlow mounts with the middle index when the
\* loading screen was shown, and keeps its state when it was already rendered.
CfFetchReturns ==
  /\ cfPending # <<>>
  /\ LET songs == Head(cfPending)
         selected == CfSelectedAfterEffect(songs, cfSelected)
     IN /\ cfPending' = Tail(cfPending)
        /\ cfSongs' = songs
        /\ cfAppIndex' = MiddleIndex(songs)
        /\ cfLoading' = FALSE
        /\ cfSelected' = selected
        /\ cfMounted' = CfShown(FALSE, songs)
        /\ cfIndex' = CfIndexAfterEffect(songs, selected,
                        IF cfMounted THEN cfIndex ELSE MiddleIndex(songs))
        /\ cfDragging' = (cfMounted /\ cfDragging)
  /\ UNCHANGED <<cfFetches, cfUndefined>>
  /\ CfFrame

\* CoverFlow sets its index to newIndex and calls onSongSelect(songs[newIndex]):
\* handleSongSelect of App, then the render and its effects.
CfSelect(newIndex) ==
  LET song == SongAt(cfSongs, newIndex)
      selected == CfSelectedAfterEffect(cfSongs, song)
  IN /\ cfUndefined' = (cfUndefined \/ song = 0)
     /\ cfSelected' = selected
     /\ cfAppIndex' = IF song # 0 /\ FindIndex(cfSongs, song) # 0 - 1
                        THEN FindIndex(cfSongs, song) ELSE cfAppIndex
     /\ cfIndex' = CfIndexAfterEffect(cfSongs, selected, newIndex)
     /\ UNCHANGED <<cfSongs, cfLoading, cfPending, cfFetches, cfMounted>>
     /\ CfFrame

\* handleKeyDown
CfKeyDown(key) ==
  /\ cfMounted
  /\ UNCHANGED cfDragging
  /\ CfSelect(IF key = "ArrowLeft" THEN Max(0, cfIndex - 1)
              ELSE IF key = "ArrowRight" THEN Min(Len(cfSongs) - 1, cfIndex + 1)
              ELSE cfIndex)

\* handleDragStart
CfDragStart ==
  /\ cfMounted /\ ~cfDragging
  /\ cfDragging' = TRUE
  /\ UNCHANGED <<cfSongs, cfLoading, cfPending, cfFetches, cfSelected, cfAppIndex,
                 cfMounted, cfIndex, cfUndefined>>
  /\ CfFrame

\* handleDragEnd: jumpCount covers forward or backward, 0 for a drag below the
\* thresholds.
CfDragEnd(forward, jumpCount) ==
  /\ cfMounted /\ cfDragging
  /\ cfDragging' = FALSE
  /\ CfSelect(IF jumpCount = 0 THEN cfIndex
              ELSE IF forward THEN Min(Len(cfSongs) - 1, cfIndex + jumpCount)
              ELSE Max(0, cfIndex - jumpCount))

\* handleAlbumClick(song, index) on one of the covers rendered.
CfAlbumClick(index) ==
  /\ cfMounted /\ ~cfDragging
  /\ index < Len(cfSongs)
  /\ UNCHANGED cfDragging
  /\ CfSelect(index)

CfNext ==
  \/ \E list \in CfLists : CfFetchSongs(list)
  \/ CfFetchReturns
  \/ \E key \in {"ArrowLeft", "ArrowRight", "Enter"} : CfKeyDown(key)
  \/ CfDragStart
  \/ \E forward \in BOOLEAN, jumpCount \in 0..MaxJump : CfDragEnd(forward, jumpCount)
  \/ \E index \in 0..(NCfSongs - 1) : CfAlbumClick(index)

\* App with its CoverFlow: searches, keys, drags and clicks.
SpecCoverFlow == Init /\ [][CfNext]_vars

\* ------------------------------------------------------ claims: CoverFlow
\* C35: while the cover flow shows a non-empty list, its current index is
\* within the list, and onSongSelect has never been called with undefined.
C35_IndexWithinList ==
  /\ cfMounted => (cfIndex >= 0 /\ cfIndex <= Len(cfSongs) - 1)
  /\ ~cfUndefined


\* ------------------------------------------------- SimpleBackgroundVideo
\* The most changes of youtubeId.
MaxChanges == 2
\* The most iframes mounted after an error for one youtubeId.
MaxRetries == 4
\* The videos.
NVideos == 2

\* handleIframeError: the iframe rendered fails to load.  Below two retries the
\* count goes up, which changes the key of the iframe and mounts a new one, and
\* a timer is armed; otherwise the fallback replaces the iframe.
BvHandleIframeError ==
  /\ bvIframe = "loading"
  /\ bvIsLoading' = FALSE
  /\ bvErrors' = bvErrors + 1
  /\ IF bvRetryCount < 2
       THEN /\ bvRetries < MaxRetries
            /\ bvRetryCount' = bvRetryCount + 1
            /\ bvTimers' = bvTimers + 1
            /\ bvRetries' = bvRetries + 1
            /\ UNCHANGED <<bvHasError, bvIframe>>
       ELSE /\ bvHasError' = TRUE
            /\ bvIframe' = "none"
            /\ UNCHANGED <<bvRetryCount, bvTimers, bvRetries>>
  /\ UNCHANGED <<bvYoutubeId, bvChanges>>
  /\ BvFrame

\* handleIframeLoad: the iframe rendered has loaded.
BvHandleIframeLoad ==
  /\ bvIframe = "loading"
  /\ bvIframe' = "loaded"
  /\ bvIsLoading' = FALSE
  /\ bvHasError' = FALSE
  /\ UNCHANGED <<bvYoutubeId, bvRetryCount, bvTimers, bvErrors, bvRetries, bvChanges>>
  /\ BvFrame

\* A timer armed by handleIframeError fires: setHasError(false).  When the
\* fallback was shown, the iframe is rendered again and loads anew.
BvTimerFires ==
  /\ bvTimers > 0
  /\ bvTimers' = bvTimers - 1
  /\ bvHasError' = FALSE
  /\ IF bvHasError
       THEN /\ bvRetries < MaxRetries
            /\ bvIframe' = "loading"
            /\ bvRetries' = bvRetries + 1
       ELSE UNCHANGED <<bvIframe, bvRetries>>
  /\ UNCHANGED <<bvYoutubeId, bvRetryCount, bvIsLoading, bvErrors, bvChanges>>
  /\ BvFrame

\* The prop youtubeId changes: the effect resets the state and the iframe of
\* the new video is rendered.  Timers armed before stay pending.
BvSetYoutubeId(id) ==
  /\ id # bvYoutubeId /\ bvChanges < MaxChanges
  /\ bvYoutubeId' = id
  /\ bvChanges' = bvChanges + 1
  /\ bvHasError' = FALSE
  /\ bvRetryCount' = 0
  /\ bvIsLoading' = TRUE
  /\ bvIframe' = "loading"
  /\ bvErrors' = 0
  /\ bvRetries' = 0
  /\ UNCHANGED bvTimers
  /\ BvFrame

BvNext ==
  \/ BvHandleIframeError
  \/ BvHandleIframeLoad
  \/ BvTimerFires
  \/ \E id \in 1..NVideos : BvSetYoutubeId(id)

\* The background video while playing: loads, load errors, timers and changes
\* of the video.
SpecVideo == Init /\ [][BvNext]_vars

\* ------------------------------------------ claims: SimpleBackgroundVideo
\* C36: for one youtubeId the video is loaded again after an error at most
\* twice and retryCount never exceeds 2; the fallback is shown only once three
\* loads have failed; a change of youtubeId sets retryCount to 0 and clears the
\* error state.
C36_AtMostTwoRetries ==
  /\ [](/\ bvRetryCount <= 2
        /\ bvRetries <= 2
        /\ bvHasError => bvErrors >= 3)
  /\ [][bvYoutubeId' # bvYoutubeId => (bvRetryCount' = 0 /\ ~bvHasError')]_vars


\* ----------------------------------------------------- getFallbackArtwork
\* The longest argument of a call.
MaxNameLen == 4
\* The characters of the arguments.
HsChars == {"a", "A", " "}
\* The arguments.
HsNames == UNION {[1..n -> HsChars] : n \in 0..MaxNameLen}

\* getFallbackArtwork(artist, trackTitle) runs and returns.
HsGetFallbackArtwork ==
  /\ ~hsDone
  /\ hsDone' = TRUE
  /\ hsHash' = SimpleHash(hsArtist \o hsTrack)
  /\ hsImage' = GetFallbackArtwork(hsArtist, hsTrack)
  /\ UNCHANGED <<hsArtist, hsTrack>>
  /\ HsFrame

HsNext == HsGetFallbackArtwork

HsDrawInit ==
  /\ AdInit /\ ItInit /\ LzInitAt(0) /\ FsInit /\ MtInit /\ UpInit /\ SbInit /\ CfInit /\ BvInit
  /\ PgInitAt(NProgSongs, 0, PgNoRange)
  /\ KyInitAt(<<<<>>, <<>>>>, <<<<"a">>, <<"a">>>>)
  /\ \E artist \in HsNames, trackTitle \in HsNames : HsInitAt(artist, trackTitle)

\* One call of getFallbackArtwork on any pair of arguments.
SpecHash == HsDrawInit /\ [][HsNext]_vars

\* ---------------------------------------------- claims: getFallbackArtwork
\* C37: for every input string simpleHash returns a non-negative integer, and
\* the colours derived from it stay in range: the hue in 0..359, the
\* saturation in 30..69, the lightness in 20..49.
C37_HashAndColoursInRange ==
  hsDone =>
    /\ ~hsHash.neg
    /\ hsHash.hi \in 0..(Two16 \div 2) /\ hsHash.lo \in 0..(Two16 - 1)
    /\ hsImage.hue \in 0..359
    /\ hsImage.saturation \in 30..69
    /\ hsImage.lightness \in 20..49

\* A call has returned whose hash wrapped around to a negative 32-bit integer
\* before its absolute value was taken.
C37_Witness ==
  /\ hsDone
  /\ ToInt32(HashFrom([hi |-> 0, lo |-> 0], hsArtist \o hsTrack)).neg

====
